---- MODULE Spec2Model ----
(***************************************************************************)
(* A model of the file-to-text extraction service:                         *)
(*   - the hybrid PDF engine (internal/hybrid/hybrid.go) and the PDF       *)
(*     extractor that converts its result (extractors/pdf),                *)
(*   - the HTTP middleware chain, the request semaphore and the per-client *)
(*     rate limiters of cmd/server/main.go,                                *)
(*   - the download workspace (internal/extract/download.go) as used by    *)
(*     Router.Extract and handlePreview,                                   *)
(*   - the OCR concurrency gate (internal/ocr/limiter.go, mistral.go),     *)
(*   - the extractor registry (internal/extract/registry.go).              *)
(* Each part has its own variables and its own specification; a            *)
(* specification leaves the other parts' variables unchanged.              *)
(***************************************************************************)
EXTENDS Integers, Sequences, FiniteSets, TLC

(***************************************************************************)
(* Bounds of the model.                                                    *)
(***************************************************************************)
\* largest page count pdfinfo reports in the model
MaxPages == 4
\* runtime.NumCPU() of the modelled machine
NumCPU == 2
\* cfg.MaxPageWorkers of the modelled deployment
MaxPageWorkers == 2

\* number of HTTP requests the server receives in the model
NumRequests == 2
\* cfg.MaxConcurrentRequests of the modelled deployment
MaxConcurrentRequests == 1
\* cfg.RateLimitBurst of the modelled deployment
RateLimitBurst == 1
\* the clock runs from 0 to MaxTime, in units of cfg.RateLimitEvery
MaxTime == 1

\* number of requests whose download workspace is followed
NumJobs == 2
\* number of OCR invocations (PDF or image) made by concurrent requests
NumOCRCalls == 2
\* cfg.MaxOCRConcurrent of the modelled deployment
MaxOCRConcurrent == 1
\* number of Registry.Register calls at startup in the model
MaxRegistrations == 3

\* cfg.MaxFileBytes of the modelled deployment, in bytes
MaxFileBytes == 2

\* maxPerPageBytes of TextForPage, the page cap plus the sentinel byte, and the
\* capacity of the operating system's pipe, in bytes of the model
maxPerPageBytes == 2
PipeCapacity == 1

\* cfg.UniversalExtractTimeout and the time the waits of a request are followed
\* for, in units of the model's clock
UniversalExtractTimeout == 2
MaxClock == 4

\* cfg.MaxCodeFileBytes of the modelled deployment, below cfg.MaxFileBytes
MaxCodeFileBytes == 1

\* largest page count of the results whose Phase 4 totals are computed
MaxSavingsPages == 50

\* maxRetries of internal/ocr/mistral.go
maxRetries == 2

\* cfg.DefaultMinWordsThreshold (DEFAULT_MIN_WORDS)
DefaultMinWordsThreshold == 20

VARIABLES
    \* ---- hybrid PDF extraction (one ProcessHybrid call and its caller) ----
    hpc,            \* position of the extraction
    ctxDone,        \* the request context's deadline has fired
    expiredIn,      \* position at which the deadline fired ("none" if it has not)
    deadlineCut,    \* some wait or external invocation was aborted by the deadline
    opts,           \* HybridProcessorOptions after ApplyDefaults
    totalPages,     \* PageCount's answer
    pages,          \* the planned page list
    wpc,            \* per index: position of the Phase-1 goroutine
    results,        \* extractPagesParallel's results slice
    semCur,         \* permits of extractPagesParallel's semaphore in use
    result,         \* the HybridExtractionResult under construction
    hErr,           \* the error ProcessHybrid returns ("none" for nil)
    needsOCRPages,  \* pages flagged in Phase 2
    shouldDoFullOCR,
    ocrCalled,      \* ocr pages handed to runOCRBatch (<<>> if it was not called)
    outOfOrder,     \* some goroutine finished before one of a lower index
    emitted,        \* the extract.Result the PDF extractor returns
    ocrResp,        \* page numbers the OCR response holds ({}: no response)
    \* ---- HTTP server: /extract and /preview requests ----
    rpc,            \* per request: position in the middleware chain
    rmethod,        \* per request: HTTP method
    rauth,          \* per request: the X-Internal-Auth header equals the secret
    rclient,        \* per request: ip of withRateLimit, getClientIP's answer ("" outside)
    rlim,           \* per request: the limiter getRateLimiter returned (0: none)
    rateOK,         \* per request: limiter.Allow() returned true
    permit,         \* per request: holds a permit of requestSem
    entered,        \* per request: the handler body has been entered
    rstatus,        \* per request: status written (0: none yet)
    retryAfter,     \* per request: Retry-After header written (0: none)
    requestSem,     \* permits of requestSem in use
    limiters,       \* the sync.Map: client -> limiter (0: no entry)
    limTokens,      \* per limiter: its tokens at time now (-1: no such limiter)
    now,            \* the clock
    passCount,      \* per client: requests that passed the rate limit since
                    \* the last cleanup
    cleanedUp,      \* cleanupRateLimiters has replaced the limiter map
    activeReqs,     \* serverMetrics.activeReqs
    totalRequests,  \* serverMetrics.totalRequests
    \* ---- download workspace of a request ----
    jpc,            \* per job: position in DownloadToTemp and its caller
    jendpoint,      \* per job: "extract" (Router.Extract) or "preview" (handlePreview)
    jurl,           \* per job: the kind of presignedUrl sent
    jdir,           \* per job: os.MkdirTemp created the job's directory
    jended,         \* per job: how the request ended ("" while it runs)
    fsDirs,         \* workspace directories that exist under the temp root
    fsFiles,        \* workspace directories that hold the downloaded file
    \* ---- OCR invocations ----
    ocrLimiter,     \* size of ocr.ocrLimiter (0: nil)
    ocrLimiterCur,  \* permits of ocr.ocrLimiter in use
    opc,            \* per call: position in RunMistralOCR / RunMistralImageOCR
    okind,          \* per call: "pdf" or "image"
    oattempt,       \* per call: the loop's attempt
    octxDone,       \* per call: the caller's context is done
    oreqs,          \* per call: requests sent to the provider
    oresult,        \* per call: how the call returned ("" while it runs)
    ostatus,        \* per call: what the last executeOCRRequest came back with (-1: none yet)
    \* ---- extractor registry ----
    regPhase,       \* "startup" while main() registers, then "serving"
    extractors,     \* Registry.extractors: names in registration order
    byMIME,         \* Registry.byMIME
    byExtension,    \* Registry.byExtension
    resolved,       \* the last Resolve call: its arguments and its answer
    \* ---- one Router.Extract call ----
    tpc,            \* position in Router.Extract
    turl,           \* the kind of req.PresignedURL
    tbody,          \* length of the response body
    lrN,            \* io.LimitedReader.N: bytes it may still hand out
    tcopied,        \* bytes io.Copy has written to the file
    tdl,            \* the DownloadedFile: Size and MIMEType
    textractor,     \* the resolved extractor: its name and MaxFileSize
    tres,           \* the Result Router.Extract returns
    terr,           \* the error Router.Extract returns ("none": nil)
    hookCalls,      \* calls of a success hook
    tstatus,        \* HTTP status handleUniversalExtract wrote, 0 before
    \* ---- Phase 4 totals of a result of any size ----
    fpc,            \* "idle", then "done" once the totals are computed
    fPages,         \* len(result.Pages)
    fTotals,        \* OCRPages, TextLayerPages, TotalPages, CostSavingsPercent
    \* ---- one validateDownloadURL call ----
    upc,            \* "idle", then "done"
    uurl,           \* the URL: whether it parses, its scheme, its host
    uallow,         \* allowPrivateDownloadURLs()
    uaccepted,      \* validateDownloadURL returned nil
    \* ---- one /preview request ----
    ppc,            \* position of handlePreview
    pextractor,     \* extractor.Name() of the resolved extractor, "" before
    ptotalPages,    \* PreviewResult.TotalPages
    ppages,         \* methods of the previewed pages, in page order
    pneedsOCR,      \* PreviewResult.NeedsOCR
    pstatus,        \* HTTP status written, 0 before
    pran,           \* Name() of the extractor whose Extract ran, "" if none
    providerCalls,  \* providers invoked while handling the request
    psize,          \* dl.Size of the downloaded artifact
    \* ---- one TextForPage call ----
    xpc,            \* "idle", "reading" (io.ReadAll), "waiting" (cmd.Wait), "returned"
    xproc,          \* the pdftotext process: "none", "running", "exited", "failed", "killed"
    xleft,          \* bytes the process has still to write to stdout
    xpipe,          \* bytes in the stdout pipe
    xout,           \* len(outBytes) so far
    xstderr,        \* what the process wrote to stderr
    xdeadline,      \* the PDFToTextTimeout sub-deadline has fired
    xerr,           \* the error TextForPage returned, "none" for a text
    \* ---- the blocking waits of one /extract request ----
    ypc,            \* "idle", "acquire", "handler", "ocrgate", "attempt", "backoff", "done"
    yclock,         \* time since the request arrived
    yctxDeadline,   \* when the context of context.WithTimeout expires, 0 before it is made
    yclientGone,    \* r.Context() is cancelled: the client went away
    ysemBusy,       \* the other requests hold every permit of requestSem
    yocrBusy,       \* the other OCR calls hold every permit of the OCR limiter
    yattempt,       \* attempt of the retry loop
    ystatus         \* what the request was answered with, "" before

hvars == <<hpc, ctxDone, expiredIn, deadlineCut, opts, totalPages, pages, wpc,
           results, semCur, result, hErr, needsOCRPages, shouldDoFullOCR,
           ocrCalled, outOfOrder, emitted, ocrResp>>

svars == <<rpc, rmethod, rauth, rclient, rlim, rateOK, permit, entered,
           rstatus, retryAfter, requestSem, limiters, limTokens, now,
           passCount, cleanedUp, activeReqs, totalRequests>>

jvars == <<jpc, jendpoint, jurl, jdir, jended, fsDirs, fsFiles>>

ovars == <<ocrLimiter, ocrLimiterCur, opc, okind, oattempt, octxDone, oreqs, oresult,
           ostatus>>

rvars == <<regPhase, extractors, byMIME, byExtension, resolved>>

tvars == <<tpc, turl, tbody, lrN, tcopied, tdl, textractor, tres, terr, hookCalls,
          tstatus>>

fvars == <<fpc, fPages, fTotals>>

uvars == <<upc, uurl, uallow, uaccepted>>

pvars == <<ppc, pextractor, ptotalPages, ppages, pneedsOCR, pstatus, pran, providerCalls,
          psize>>

xvars == <<xpc, xproc, xleft, xpipe, xout, xstderr, xdeadline, xerr>>

yvars == <<ypc, yclock, yctxDeadline, yclientGone, ysemBusy, yocrBusy, yattempt, ystatus>>

vars == <<hvars, svars, jvars, ovars, rvars, tvars, fvars, uvars, pvars, xvars, yvars>>

(***************************************************************************)
(* Helpers                                                                 *)
(***************************************************************************)
Range(s) == {s[i] : i \in DOMAIN s}

RECURSIVE SeqFilter(_, _)
\* the subsequence of s of the elements in set keep, order kept
SeqFilter(s, keep) ==
    IF s = <<>> THEN <<>>
    ELSE IF Head(s) \in keep THEN <<Head(s)>> \o SeqFilter(Tail(s), keep)
         ELSE SeqFilter(Tail(s), keep)

(***************************************************************************)
(* Hybrid engine: data                                                     *)
(***************************************************************************)
NoText == [src |-> "none", page |-> 0, words |-> 0]
\* the cleaned text layer of a page with the given number of words
LayerText(page, words) == [src |-> "text-layer", page |-> page, words |-> words]
\* the cleaned OCR markdown of a page
OCRText(page) == [src |-> "ocr", page |-> page, words |-> page]

\* the zero value of types.PageExtractionResult
ZeroPage == [PageNumber |-> 0, Text |-> NoText, Method |-> "", WordCount |-> 0]

\* quality.CountWords
CountWords(text) == text.words

\* quality.Score: the word count and whether the page needs OCR
Score(text, minWords) ==
    [WordCount |-> CountWords(text), NeedsOCR |-> CountWords(text) < minWords]

\* the word counts a page's text layer has in the model
PageWordCounts == {0, DefaultMinWordsThreshold - 1, DefaultMinWordsThreshold}

\* option values a caller of ProcessHybrid passes as opts.Pages
PageLists == {<<>>, <<2, 1>>, <<1, 1>>}

\* OCR trigger ratios as fractions <<numerator, denominator>>; the first is
\* cfg.DefaultOCRTriggerRatio = 0.25
TriggerRatios == {<<1, 4>>, <<1, 2>>}

\* ApplyDefaults on the options the model's callers pass
ApplyDefaults(o) ==
    [o EXCEPT !.MinWordsThreshold =
                  IF @ <= 0 THEN DefaultMinWordsThreshold ELSE @,
              !.OCRTriggerRatio = IF @[1] <= 0 THEN <<1, 4>> ELSE @]

EmptyResult ==
    [Success |-> FALSE, Pages |-> <<>>, Error |-> "none", TotalPages |-> 0,
     TextLayerPages |-> 0, OCRPages |-> 0, CostSavingsPercent |-> 0]

NoEmitted == [Success |-> FALSE, Method |-> "", Pages |-> <<>>, Error |-> "none"]

\* a semaphore with one permit per page
WorkersPerPage(n) == n

\* extractPagesParallel: the semaphore's size
Workers(n) ==
    LET w0 == NumCPU
        w1 == IF MaxPageWorkers > 0 /\ w0 > MaxPageWorkers THEN MaxPageWorkers ELSE w0
        w2 == IF w1 > n THEN n ELSE w1
    IN  IF w2 < 1 THEN 1 ELSE w2

\* extractSinglePage, given TextForPage's outcome: an error, or the text
extractSinglePage(pageNum, minWords, toolErr, words) ==
    IF toolErr
    THEN [PageNumber |-> pageNum, Text |-> NoText, Method |-> "needs-ocr",
          WordCount |-> 0]
    ELSE LET text == LayerText(pageNum, words)
             decision == Score(text, minWords)
         IN  IF decision.NeedsOCR
             THEN [PageNumber |-> pageNum, Text |-> NoText, Method |-> "needs-ocr",
                   WordCount |-> decision.WordCount]
             ELSE [PageNumber |-> pageNum, Text |-> text, Method |-> "text-layer",
                   WordCount |-> decision.WordCount]

\* a merge that overwrites every page the response has an entry for
mergeOCRResultsAll(ps, ocrResults, fullOCR) ==
    [i \in DOMAIN ps |->
        IF ps[i].PageNumber \in ocrResults
        THEN [ps[i] EXCEPT !.Text = OCRText(ps[i].PageNumber),
                           !.Method = "ocr",
                           !.WordCount = CountWords(OCRText(ps[i].PageNumber))]
        ELSE ps[i]]

\* mergeOCRResults; ocrResults is the set of page numbers the response holds
mergeOCRResults(ps, ocrResults, fullOCR) ==
    [i \in DOMAIN ps |->
        IF ps[i].PageNumber \in ocrResults
           /\ (fullOCR \/ ps[i].Method = "needs-ocr")
        THEN [ps[i] EXCEPT !.Text = OCRText(ps[i].PageNumber),
                           !.Method = "ocr",
                           !.WordCount = CountWords(OCRText(ps[i].PageNumber))]
        ELSE ps[i]]

\* countOCRPages
countOCRPages(ps) == Cardinality({i \in DOMAIN ps : ps[i].Method = "ocr"})

\* The percentages k for which float64 arithmetic gives k/100*100 < k.  For
\* integers a <= b, float64(a)/float64(b)*100 truncates to floor(100a/b) unless
\* 100a/b is an integer k of this set: the quotient is then the double nearest
\* to k/100, whose product with 100 rounds to the double just below k.
Float64RoundsBelow == {29, 57, 58}

\* calculateSavings: int(float64(textLayerPages) / float64(totalPages) * 100)
calculateSavings(textLayerPages, total) ==
    IF total = 0 THEN 0
    ELSE LET k == (100 * textLayerPages) \div total
         IN  IF (100 * textLayerPages) % total = 0 /\ k \in Float64RoundsBelow
             THEN k - 1
             ELSE k

(***************************************************************************)
(* Hybrid engine: steps                                                    *)
(***************************************************************************)
HInit ==
    /\ hpc = "start"
    /\ ctxDone = FALSE
    /\ expiredIn = "none"
    /\ deadlineCut = FALSE
    /\ opts = [Pages |-> <<>>, MinWordsThreshold |-> 0, OCRTriggerRatio |-> <<0, 1>>]
    /\ totalPages = 0
    /\ pages = <<>>
    /\ wpc = <<>>
    /\ results = <<>>
    /\ semCur = 0
    /\ result = EmptyResult
    /\ hErr = "none"
    /\ needsOCRPages = <<>>
    /\ shouldDoFullOCR = FALSE
    /\ ocrCalled = <<>>
    /\ outOfOrder = FALSE
    /\ emitted = NoEmitted
    /\ ocrResp = {}

\* The request deadline fires (context.WithTimeout in the HTTP handler).
DeadlineExpires ==
    /\ ~ctxDone
    /\ hpc \in {"start", "count", "phase1", "ocr"}
    /\ ctxDone' = TRUE
    /\ expiredIn' = hpc
    /\ UNCHANGED <<hpc, deadlineCut, opts, totalPages, pages, wpc, results, semCur,
                   result, hErr, needsOCRPages, shouldDoFullOCR, ocrCalled, outOfOrder, emitted, ocrResp>>

\* A caller enters ProcessHybrid with its options.
ProcessHybridCall ==
    /\ hpc = "start"
    /\ \E pl \in PageLists, ratio \in TriggerRatios \cup {<<0, 1>>} :
          opts' = ApplyDefaults([Pages |-> pl, MinWordsThreshold |-> 0,
                                 OCRTriggerRatio |-> ratio])
    /\ hpc' = "count"
    /\ UNCHANGED <<ctxDone, expiredIn, deadlineCut, totalPages, pages, wpc, results,
                   semCur, result, hErr, needsOCRPages, shouldDoFullOCR, ocrCalled,
                   outOfOrder, emitted, ocrResp>>

\* extractor.PageCount fails: result.Error is set and the error returned.
PageCountFails ==
    /\ hpc = "count"
    /\ \E kind \in (IF ctxDone THEN {"deadline"} ELSE {"damaged"}) :
          /\ result' = [result EXCEPT !.Error = "page count failed: " \o kind]
          /\ hErr' = kind
          /\ deadlineCut' = (deadlineCut \/ kind = "deadline")
    /\ hpc' = "returned"
    /\ UNCHANGED <<ctxDone, expiredIn, opts, totalPages, pages, wpc, results, semCur,
                   needsOCRPages, shouldDoFullOCR, ocrCalled, outOfOrder, emitted, ocrResp>>

\* extractor.PageCount answers n; the plan is made and the Phase-1 goroutines
\* are spawned.
PageCountOK ==
    /\ hpc = "count"
    /\ \E n \in 1..MaxPages :
          LET plan == IF Len(opts.Pages) = 0 THEN [i \in 1..n |-> i] ELSE opts.Pages
          IN  /\ totalPages' = n
              /\ result' = [result EXCEPT !.TotalPages = n]
              /\ pages' = plan
              /\ wpc' = [i \in 1..Len(plan) |-> "spawned"]
              /\ results' = [i \in 1..Len(plan) |-> ZeroPage]
    /\ semCur' = 0
    /\ hpc' = "phase1"
    /\ UNCHANGED <<ctxDone, expiredIn, deadlineCut, opts, hErr, needsOCRPages,
                   shouldDoFullOCR, ocrCalled, outOfOrder, emitted, ocrResp>>

\* sem.Acquire(ctx, 1) succeeds.  With the context already done the library may
\* still hand out a free permit.
WorkerAcquire(idx) ==
    /\ hpc = "phase1"
    /\ wpc[idx] = "spawned"
    /\ semCur < Workers(Len(pages))
    /\ semCur' = semCur + 1
    /\ wpc' = [wpc EXCEPT ![idx] = "running"]
    /\ UNCHANGED <<hpc, ctxDone, expiredIn, deadlineCut, opts, totalPages, pages,
                   results, result, hErr, needsOCRPages, shouldDoFullOCR, ocrCalled,
                   outOfOrder, emitted, ocrResp>>

\* the slot of the results slice the goroutine of index idx writes
ResultSlotCompletionOrder(idx) == Cardinality({i \in DOMAIN wpc : wpc[i] = "done"}) + 1
ResultSlot(idx) == idx

\* a goroutine finishes while one of a lower index has not
FinishesEarly(idx) == \E j \in DOMAIN wpc : j < idx /\ wpc[j] # "done"

\* sem.Acquire(ctx, 1) fails because the context is done: the page is written
\* as needs-ocr without text.
WorkerAcquireCancelled(idx) ==
    /\ hpc = "phase1"
    /\ wpc[idx] = "spawned"
    /\ ctxDone
    /\ results' = [results EXCEPT ![ResultSlot(idx)] =
                      [PageNumber |-> pages[idx], Text |-> NoText,
                       Method |-> "needs-ocr", WordCount |-> 0]]
    /\ wpc' = [wpc EXCEPT ![idx] = "done"]
    /\ deadlineCut' = TRUE
    /\ outOfOrder' = (outOfOrder \/ FinishesEarly(idx))
    /\ UNCHANGED <<hpc, ctxDone, expiredIn, opts, totalPages, pages, semCur, result,
                   hErr, needsOCRPages, shouldDoFullOCR, ocrCalled, emitted, ocrResp>>

\* extractSinglePage returns and the permit is released.  The tool fails on its
\* own, or is killed by the context; otherwise it yields the page's text.
WorkerExtract(idx) ==
    /\ hpc = "phase1"
    /\ wpc[idx] = "running"
    /\ \E toolErr \in BOOLEAN, words \in PageWordCounts, killed \in BOOLEAN :
          /\ killed => (ctxDone /\ toolErr)
          /\ toolErr => words = 0
          /\ pages[idx] > totalPages => toolErr
          /\ results' = [results EXCEPT ![ResultSlot(idx)] =
                extractSinglePage(pages[idx], opts.MinWordsThreshold, toolErr, words)]
          /\ deadlineCut' = (deadlineCut \/ killed)
    /\ semCur' = semCur - 1
    /\ wpc' = [wpc EXCEPT ![idx] = "done"]
    /\ outOfOrder' = (outOfOrder \/ FinishesEarly(idx))
    /\ UNCHANGED <<hpc, ctxDone, expiredIn, opts, totalPages, pages, result, hErr,
                   needsOCRPages, shouldDoFullOCR, ocrCalled, emitted, ocrResp>>

\* ocrRatio > opts.OCRTriggerRatio
RatioExceeded(flagged, planned, ratio) == flagged * ratio[2] > ratio[1] * planned

\* ocrRatio >= opts.OCRTriggerRatio, with the ratio a fraction
\* <<numerator, denominator>>
RatioReached(flagged, planned, ratio) == flagged * ratio[2] >= ratio[1] * planned

\* Phase 3 entered for every document
OCRPhaseAlways(needsPages) == TRUE

\* Phase 3 is entered: len(needsOCRPages) > 0
OCRPhaseEntered(needsPages) == Len(needsPages) > 0

\* wg.Wait() returns; Phase 2 copies the results and decides the OCR strategy.
AnalyzeQuality ==
    /\ hpc = "phase1"
    /\ \A i \in DOMAIN wpc : wpc[i] = "done"
    /\ LET flaggedIdx == {i \in DOMAIN results : results[i].Method # "text-layer"}
           needs == SeqFilter([i \in 1..Len(results) |-> i], flaggedIdx)
           needsPages == [k \in 1..Len(needs) |-> results[needs[k]].PageNumber]
       IN  /\ result' = [result EXCEPT
                            !.Pages = results,
                            !.TextLayerPages = Len(results) - Cardinality(flaggedIdx)]
           /\ needsOCRPages' = needsPages
           /\ shouldDoFullOCR' =
                 RatioReached(Len(needsPages), Len(pages), opts.OCRTriggerRatio)
           /\ hpc' = IF OCRPhaseEntered(needsPages) THEN "ocr" ELSE "combine"
    /\ UNCHANGED <<ctxDone, expiredIn, deadlineCut, opts, totalPages, pages, wpc,
                   results, semCur, hErr, ocrCalled, outOfOrder, emitted, ocrResp>>

\* the pages ProcessHybrid hands to runOCRBatch
OCRPagesArg == IF shouldDoFullOCR THEN pages ELSE needsOCRPages

\* runOCRBatch fails (provider error, or the context is done): the error
\* message is attached and the pages stay as Phase 1 left them.
OCRFails ==
    /\ hpc = "ocr"
    /\ ocrCalled' = OCRPagesArg
    /\ \E kind \in (IF ctxDone THEN {"deadline"} ELSE {"provider"}) :
          /\ result' = [result EXCEPT !.Error = "OCR failed: " \o kind]
          /\ deadlineCut' = (deadlineCut \/ kind = "deadline")
    /\ hpc' = "combine"
    /\ UNCHANGED <<ctxDone, expiredIn, opts, totalPages, pages, wpc, results, semCur,
                   hErr, needsOCRPages, shouldDoFullOCR, outOfOrder, emitted, ocrResp>>

\* runOCRBatch succeeds with a response holding a non-empty set of pages, which
\* need not be the requested ones; the response is merged.
OCRSucceeds ==
    /\ hpc = "ocr"
    /\ ~ctxDone
    /\ ocrCalled' = OCRPagesArg
    /\ \E resp \in (SUBSET (1..MaxPages)) \ {{}} :
          /\ ocrResp' = resp
          /\ result' = [result EXCEPT
                           !.Pages = mergeOCRResults(result.Pages, resp, shouldDoFullOCR)]
    /\ hpc' = "combine"
    /\ UNCHANGED <<ctxDone, expiredIn, deadlineCut, opts, totalPages, pages, wpc,
                   results, semCur, hErr, needsOCRPages, shouldDoFullOCR, outOfOrder, emitted>>

\* Phase 4: the totals are computed, Success is set and the result returned
\* with a nil error.
CombineAndReturn ==
    /\ hpc = "combine"
    /\ result' = [result EXCEPT
                     !.OCRPages = countOCRPages(result.Pages),
                     !.TextLayerPages = Len(result.Pages) - countOCRPages(result.Pages),
                     !.CostSavingsPercent =
                         calculateSavings(Len(result.Pages) - countOCRPages(result.Pages),
                                          result.TotalPages),
                     !.Success = TRUE]
    /\ hErr' = "none"
    /\ hpc' = "returned"
    /\ UNCHANGED <<ctxDone, expiredIn, deadlineCut, opts, totalPages, pages, wpc,
                   results, semCur, needsOCRPages, shouldDoFullOCR, ocrCalled, outOfOrder, emitted, ocrResp>>

\* pdf.Extractor.Extract converts what ProcessHybrid returned.
PdfExtract ==
    /\ hpc = "returned"
    /\ emitted' =
          IF hErr # "none"
          THEN [Success |-> FALSE, Method |-> "hybrid", Pages |-> <<>>, Error |-> hErr]
          ELSE [Success |-> TRUE, Method |-> "hybrid",
                Pages |-> [i \in DOMAIN result.Pages |->
                              [PageNumber |-> result.Pages[i].PageNumber,
                               Text |-> result.Pages[i].Text,
                               Method |-> result.Pages[i].Method,
                               WordCount |-> result.Pages[i].WordCount]],
                Error |-> "none"]
    /\ hpc' = "emitted"
    /\ UNCHANGED <<ctxDone, expiredIn, deadlineCut, opts, totalPages, pages, wpc,
                   results, semCur, result, hErr, needsOCRPages, shouldDoFullOCR,
                   ocrCalled, outOfOrder, ocrResp>>


(***************************************************************************)
(* HTTP server: data                                                       *)
(***************************************************************************)
Requests == 1..NumRequests
Clients == {"10.0.0.1", "10.0.0.2"}
Methods == {"POST", "GET"}

\* withMethod's test
MethodAllowedAny(got, method) == TRUE
MethodAllowed(got, method) == got = method

\* semaphore.Weighted.Acquire can take a permit without waiting
SemAlwaysRoom(cur, size) == TRUE
SemHasRoom(cur, size) == cur < size

\* rate.Limiter: the tokens of a bucket one RateLimitEvery later
Refill(tokens) ==
    IF tokens < 0 \/ tokens >= RateLimitBurst THEN tokens ELSE tokens + 1

\* the limiters reachable from the map or from a request in getRateLimiter /
\* withRateLimit; the others are garbage
LiveLimiters(map, held) == {map[c] : c \in Clients} \cup {held[r] : r \in Requests}

Sweep(tokens, map, held) ==
    [id \in Requests |-> IF id \in LiveLimiters(map, held) THEN tokens[id] ELSE -1]

(***************************************************************************)
(* HTTP server: steps.  The chain of main() is                             *)
(*   withInternalAuth(withRateLimit(withMethod("POST",                     *)
(*       withConcurrencyLimit(handler))))                                  *)
(***************************************************************************)
SInit ==
    /\ rpc = [r \in Requests |-> "idle"]
    /\ rmethod = [r \in Requests |-> "POST"]
    /\ rauth = [r \in Requests |-> FALSE]
    /\ rclient = [r \in Requests |-> ""]
    /\ rlim = [r \in Requests |-> 0]
    /\ rateOK = [r \in Requests |-> FALSE]
    /\ permit = [r \in Requests |-> FALSE]
    /\ entered = [r \in Requests |-> FALSE]
    /\ rstatus = [r \in Requests |-> 0]
    /\ retryAfter = [r \in Requests |-> 0]
    /\ requestSem = 0
    /\ limiters = [c \in Clients |-> 0]
    /\ limTokens = [id \in Requests |-> -1]
    /\ now = 0
    /\ passCount = [c \in Clients |-> 0]
    /\ cleanedUp = FALSE
    /\ activeReqs = 0
    /\ totalRequests = 0

\* withInternalAuth writing 401 and calling next all the same
AuthRejectedFallsThrough == "rate"

\* withInternalAuth after writeErr(401): return
AuthRejected == "done"

\* A request arrives and withInternalAuth compares its header with the secret.
\* Requests are numbered in the order of their arrival.
WithInternalAuth(r) ==
    /\ UNCHANGED <<activeReqs, totalRequests>>
    /\ rpc[r] = "idle"
    /\ \A q \in Requests : q < r => rpc[q] # "idle"
    /\ \E m \in Methods, a \in BOOLEAN :
          /\ rmethod' = [rmethod EXCEPT ![r] = m]
          /\ rauth' = [rauth EXCEPT ![r] = a]
          /\ IF a
             THEN /\ rpc' = [rpc EXCEPT ![r] = "rate"]
                  /\ UNCHANGED rstatus
             ELSE /\ rpc' = [rpc EXCEPT ![r] = AuthRejected]
                  /\ rstatus' = [rstatus EXCEPT ![r] = 401]
    /\ UNCHANGED <<rclient, rlim, rateOK, permit, entered, retryAfter, requestSem,
                   limiters, limTokens, now, passCount, cleanedUp>>

\* withRateLimit: ip := getClientIP(r), then getRateLimiter: limiters.Load(ip).
\* On a miss a new limiter is made, not yet stored.
GetRateLimiterLoad(r) ==
    /\ UNCHANGED <<activeReqs, totalRequests>>
    /\ rpc[r] = "rate"
    /\ \E ip \in Clients :
          /\ rclient' = [rclient EXCEPT ![r] = ip]
          /\ IF limiters[ip] # 0
             THEN /\ rlim' = [rlim EXCEPT ![r] = limiters[ip]]
                  /\ rpc' = [rpc EXCEPT ![r] = "allow"]
                  /\ UNCHANGED <<limTokens>>
             ELSE /\ rlim' = [rlim EXCEPT ![r] = r]
                  /\ limTokens' = [limTokens EXCEPT ![r] = RateLimitBurst]
                  /\ rpc' = [rpc EXCEPT ![r] = "store"]
    /\ UNCHANGED <<rmethod, rauth, rateOK, permit, entered, rstatus,
                   retryAfter, requestSem, limiters, now, passCount, cleanedUp>>

\* getRateLimiter: limiters.Store(ip, limiter), whatever the map holds by now.
GetRateLimiterStore(r) ==
    /\ UNCHANGED <<activeReqs, totalRequests>>
    /\ rpc[r] = "store"
    /\ limiters' = [limiters EXCEPT ![rclient[r]] = rlim[r]]
    /\ limTokens' = Sweep(limTokens, limiters', rlim)
    /\ rpc' = [rpc EXCEPT ![r] = "allow"]
    /\ UNCHANGED <<rmethod, rauth, rclient, rlim, rateOK, permit, entered,
                   rstatus, retryAfter, requestSem, now, passCount, cleanedUp>>

\* withRateLimit: limiter.Allow(); a refusal is answered 429 with Retry-After.
WithRateLimit(r) ==
    /\ UNCHANGED <<activeReqs, totalRequests>>
    /\ rpc[r] = "allow"
    /\ rlim' = [rlim EXCEPT ![r] = 0]
    /\ LET id == rlim[r]
           tokens == limTokens[id]
       IN  IF tokens >= 1
           THEN /\ limTokens' = Sweep([limTokens EXCEPT ![id] = tokens - 1],
                                      limiters, rlim')
                /\ rateOK' = [rateOK EXCEPT ![r] = TRUE]
                /\ passCount' = [passCount EXCEPT ![rclient[r]] = @ + 1]
                /\ rpc' = [rpc EXCEPT ![r] = "method"]
                /\ UNCHANGED <<rstatus, retryAfter>>
           ELSE /\ rstatus' = [rstatus EXCEPT ![r] = 429]
                /\ retryAfter' = [retryAfter EXCEPT ![r] = 60]
                /\ rpc' = [rpc EXCEPT ![r] = "done"]
                /\ limTokens' = Sweep(limTokens, limiters, rlim')
                /\ UNCHANGED <<rateOK, passCount>>
    /\ rclient' = [rclient EXCEPT ![r] = ""]
    /\ UNCHANGED <<rmethod, rauth, permit, entered, requestSem, limiters, now,
                   cleanedUp>>

\* withMethod("POST", ...)
WithMethod(r) ==
    /\ UNCHANGED <<activeReqs, totalRequests>>
    /\ rpc[r] = "method"
    /\ IF MethodAllowed(rmethod[r], "POST")
       THEN /\ rpc' = [rpc EXCEPT ![r] = "acquire"]
            /\ UNCHANGED rstatus
       ELSE /\ rpc' = [rpc EXCEPT ![r] = "done"]
            /\ rstatus' = [rstatus EXCEPT ![r] = 405]
    /\ UNCHANGED <<rmethod, rauth, rclient, rlim, rateOK, permit, entered,
                   retryAfter, requestSem, limiters, limTokens, now,
                   passCount, cleanedUp>>

\* withConcurrencyLimit: requestSem.Acquire succeeds, metrics.incActive runs
\* and the handler is entered.
WithConcurrencyLimit(r) ==
    /\ rpc[r] = "acquire"
    /\ SemHasRoom(requestSem, MaxConcurrentRequests)
    /\ requestSem' = requestSem + 1
    /\ activeReqs' = activeReqs + 1
    /\ totalRequests' = totalRequests + 1
    /\ permit' = [permit EXCEPT ![r] = TRUE]
    /\ entered' = [entered EXCEPT ![r] = TRUE]
    /\ rpc' = [rpc EXCEPT ![r] = "handler"]
    /\ UNCHANGED <<rmethod, rauth, rclient, rlim, rateOK, rstatus, retryAfter,
                   limiters, limTokens, now, passCount, cleanedUp>>

\* withConcurrencyLimit: the request's context is done (the client went away)
\* and requestSem.Acquire fails; the answer is 503.
AcquireFails(r) ==
    /\ UNCHANGED <<activeReqs, totalRequests>>
    /\ rpc[r] = "acquire"
    /\ rstatus' = [rstatus EXCEPT ![r] = 503]
    /\ rpc' = [rpc EXCEPT ![r] = "done"]
    /\ UNCHANGED <<rmethod, rauth, rclient, rlim, rateOK, permit, entered,
                   retryAfter, requestSem, limiters, limTokens, now,
                   passCount, cleanedUp>>

\* deferred calls that are skipped when the handler panics
DeferredSkippedByPanic(count, status) == IF status = 500 THEN count ELSE count - 1

\* defer requestSem.Release(1), defer metrics.decActive(): run on every way
\* out of the handler, a panic included
Deferred(count, status) == count - 1

\* The handler writes its answer and returns, or panics and withRecovery
\* answers 500; the deferred decActive and Release run either way.
HandlerEnds(r) ==
    /\ rpc[r] = "handler"
    /\ \E st \in {200, 400, 500} :
          /\ rstatus' = [rstatus EXCEPT ![r] = st]
          /\ requestSem' = Deferred(requestSem, st)
          /\ activeReqs' = Deferred(activeReqs, st)
    /\ UNCHANGED totalRequests
    /\ permit' = [permit EXCEPT ![r] = FALSE]
    /\ rpc' = [rpc EXCEPT ![r] = "done"]
    /\ UNCHANGED <<rmethod, rauth, rclient, rlim, rateOK, entered, retryAfter,
                   limiters, limTokens, now, passCount, cleanedUp>>

\* RateLimitEvery passes: every limiter below its burst gains a token.
Tick ==
    /\ UNCHANGED <<activeReqs, totalRequests>>
    /\ now < MaxTime
    /\ now' = now + 1
    /\ limTokens' = [id \in Requests |-> Refill(limTokens[id])]
    /\ UNCHANGED <<rpc, rmethod, rauth, rclient, rlim, rateOK, permit, entered,
                   rstatus, retryAfter, requestSem, limiters, passCount, cleanedUp>>

\* cleanupRateLimiters: the ticker fires and the map is replaced by an empty one.
CleanupRateLimiters ==
    /\ UNCHANGED <<activeReqs, totalRequests>>
    /\ \E c \in Clients : limiters[c] # 0
    /\ limiters' = [c \in Clients |-> 0]
    /\ passCount' = [c \in Clients |-> 0]
    /\ cleanedUp' = TRUE
    /\ limTokens' = Sweep(limTokens, limiters', rlim)
    /\ UNCHANGED <<rpc, rmethod, rauth, rclient, rlim, rateOK, permit, entered,
                   rstatus, retryAfter, requestSem, now>>

SNext ==
    \/ \E r \in Requests : WithInternalAuth(r) /\ UNCHANGED <<hvars, jvars, ovars, rvars, tvars, fvars, uvars, pvars, xvars, yvars>>
    \/ \E r \in Requests : GetRateLimiterLoad(r) /\ UNCHANGED <<hvars, jvars, ovars, rvars, tvars, fvars, uvars, pvars, xvars, yvars>>
    \/ \E r \in Requests : GetRateLimiterStore(r) /\ UNCHANGED <<hvars, jvars, ovars, rvars, tvars, fvars, uvars, pvars, xvars, yvars>>
    \/ \E r \in Requests : WithRateLimit(r) /\ UNCHANGED <<hvars, jvars, ovars, rvars, tvars, fvars, uvars, pvars, xvars, yvars>>
    \/ \E r \in Requests : WithMethod(r) /\ UNCHANGED <<hvars, jvars, ovars, rvars, tvars, fvars, uvars, pvars, xvars, yvars>>
    \/ \E r \in Requests : WithConcurrencyLimit(r) /\ UNCHANGED <<hvars, jvars, ovars, rvars, tvars, fvars, uvars, pvars, xvars, yvars>>
    \/ \E r \in Requests : AcquireFails(r) /\ UNCHANGED <<hvars, jvars, ovars, rvars, tvars, fvars, uvars, pvars, xvars, yvars>>
    \/ \E r \in Requests : HandlerEnds(r) /\ UNCHANGED <<hvars, jvars, ovars, rvars, tvars, fvars, uvars, pvars, xvars, yvars>>
    \/ Tick /\ UNCHANGED <<hvars, jvars, ovars, rvars, tvars, fvars, uvars, pvars, xvars, yvars>>
    \/ CleanupRateLimiters /\ UNCHANGED <<hvars, jvars, ovars, rvars, tvars, fvars, uvars, pvars, xvars, yvars>>


(***************************************************************************)
(* Download workspace: DownloadToTemp and the deferred Cleanup of its      *)
(* callers, Router.Extract (/extract) and handlePreview (/preview).        *)
(***************************************************************************)
Jobs == 1..NumJobs

\* presignedUrl values: "clean" passes validateDownloadURL and url.Parse;
\* "rejected" fails validateDownloadURL; "padded" is a valid URL with a
\* leading or trailing control character (such as a trailing newline), which
\* validateDownloadURL trims before parsing and http.NewRequestWithContext
\* does not.
URLKinds == {"clean", "rejected", "padded"}

\* validateDownloadURL parses strings.TrimSpace(rawURL)
validateDownloadURL(kind) == kind \in {"clean", "padded"}

\* http.NewRequestWithContext parses the URL as given; on an error it returns
\* a nil request
NewRequestIsNil(kind) == kind = "padded"

JInit ==
    /\ jpc = [j \in Jobs |-> "idle"]
    /\ jendpoint = [j \in Jobs |-> "extract"]
    /\ jurl = [j \in Jobs |-> "clean"]
    /\ jdir = [j \in Jobs |-> FALSE]
    /\ jended = [j \in Jobs |-> ""]
    /\ fsDirs = {}
    /\ fsFiles = {}

\* the job's request ends without a workspace to remove
JEnd(j, how) ==
    /\ jpc' = [jpc EXCEPT ![j] = "done"]
    /\ jended' = [jended EXCEPT ![j] = how]

\* DownloadToTemp's error paths after MkdirTemp: os.RemoveAll(tmpDir)
JFailRemoving(j, how) ==
    /\ fsDirs' = fsDirs \ {j}
    /\ fsFiles' = fsFiles \ {j}
    /\ JEnd(j, how)

\* The handler calls DownloadToTemp; validateDownloadURL decides first.
DownloadToTemp(j) ==
    /\ jpc[j] = "idle"
    /\ \A q \in Jobs : q < j => jpc[q] # "idle"
    /\ \E ep \in {"extract", "preview"}, kind \in URLKinds :
          /\ jendpoint' = [jendpoint EXCEPT ![j] = ep]
          /\ jurl' = [jurl EXCEPT ![j] = kind]
          /\ IF validateDownloadURL(kind)
             THEN /\ jpc' = [jpc EXCEPT ![j] = "mkdir"]
                  /\ UNCHANGED jended
             ELSE JEnd(j, "error: invalid url")
    /\ UNCHANGED <<jdir, fsDirs, fsFiles>>

\* os.MkdirTemp("", "fileproc-*"): a fresh directory, or an error.
MkdirTemp(j) ==
    /\ jpc[j] = "mkdir"
    /\ \/ /\ fsDirs' = fsDirs \cup {j}
          /\ jdir' = [jdir EXCEPT ![j] = TRUE]
          /\ jpc' = [jpc EXCEPT ![j] = "newreq"]
          /\ UNCHANGED jended
       \/ /\ JEnd(j, "error: temp dir")
          /\ UNCHANGED <<fsDirs, jdir>>
    /\ UNCHANGED <<jendpoint, jurl, fsFiles>>

\* req, _ := http.NewRequestWithContext(...); req.Header.Set(...): with a nil
\* request the handler panics here and withRecovery answers 500.
NewRequest(j) ==
    /\ jpc[j] = "newreq"
    /\ IF NewRequestIsNil(jurl[j])
       THEN JEnd(j, "panic")
       ELSE /\ jpc' = [jpc EXCEPT ![j] = "do"]
            /\ UNCHANGED jended
    /\ UNCHANGED <<jendpoint, jurl, jdir, fsDirs, fsFiles>>

\* client.Do: an error (also the deadline), a status other than 200, or the
\* response.
ClientDo(j) ==
    /\ jpc[j] = "do"
    /\ \/ \E how \in {"error: download", "error: deadline", "error: http status"} :
             JFailRemoving(j, how)
       \/ /\ jpc' = [jpc EXCEPT ![j] = "create"]
          /\ UNCHANGED <<jended, fsDirs, fsFiles>>
    /\ UNCHANGED <<jendpoint, jurl, jdir>>

\* os.Create(outPath)
CreateFile(j) ==
    /\ jpc[j] = "create"
    /\ \/ JFailRemoving(j, "error: create")
       \/ /\ fsFiles' = fsFiles \cup {j}
          /\ jpc' = [jpc EXCEPT ![j] = "copy"]
          /\ UNCHANGED <<jended, fsDirs>>
    /\ UNCHANGED <<jendpoint, jurl, jdir>>

\* io.Copy of the limited body, the size test and f.Sync; on success the
\* DownloadedFile is returned and its caller defers dl.Cleanup().
CopyAndSync(j) ==
    /\ jpc[j] = "copy"
    /\ \/ \E how \in {"error: write", "error: deadline", "error: too large",
                      "error: sync"} : JFailRemoving(j, how)
       \/ /\ jpc' = [jpc EXCEPT ![j] = "held"]
          /\ UNCHANGED <<jended, fsDirs, fsFiles>>
    /\ UNCHANGED <<jendpoint, jurl, jdir>>

\* the ways the caller of DownloadToTemp returns once it holds the file
HeldEndings(ep) ==
    {"error: no extractor", "error: extractor", "error: deadline", "panic", "success"}
        \cup (IF ep = "extract" THEN {"error: extractor limit"}
                                ELSE {"error: preview unsupported"})

\* Router.Extract or handlePreview returns or panics; the deferred
\* dl.Cleanup() removes the directory.
CallerReturns(j) ==
    /\ jpc[j] = "held"
    /\ \E how \in HeldEndings(jendpoint[j]) : JFailRemoving(j, how)
    /\ UNCHANGED <<jendpoint, jurl, jdir>>

JNext ==
    \/ \E j \in Jobs : DownloadToTemp(j) /\ UNCHANGED <<hvars, svars, ovars, rvars, tvars, fvars, uvars, pvars, xvars, yvars>>
    \/ \E j \in Jobs : MkdirTemp(j) /\ UNCHANGED <<hvars, svars, ovars, rvars, tvars, fvars, uvars, pvars, xvars, yvars>>
    \/ \E j \in Jobs : NewRequest(j) /\ UNCHANGED <<hvars, svars, ovars, rvars, tvars, fvars, uvars, pvars, xvars, yvars>>
    \/ \E j \in Jobs : ClientDo(j) /\ UNCHANGED <<hvars, svars, ovars, rvars, tvars, fvars, uvars, pvars, xvars, yvars>>
    \/ \E j \in Jobs : CreateFile(j) /\ UNCHANGED <<hvars, svars, ovars, rvars, tvars, fvars, uvars, pvars, xvars, yvars>>
    \/ \E j \in Jobs : CopyAndSync(j) /\ UNCHANGED <<hvars, svars, ovars, rvars, tvars, fvars, uvars, pvars, xvars, yvars>>
    \/ \E j \in Jobs : CallerReturns(j) /\ UNCHANGED <<hvars, svars, ovars, rvars, tvars, fvars, uvars, pvars, xvars, yvars>>

(***************************************************************************)
(* OCR invocations: RunMistralOCR / RunMistralImageOCR behind              *)
(* ocr.withConcurrencyLimit.  main() builds its own ocrSem and never calls *)
(* ocr.SetConcurrencyLimit, so ocr.ocrLimiter stays nil.                   *)
(***************************************************************************)
OCRCalls == 1..NumOCRCalls

\* an isClientError that takes no error for a client error
isClientErrorNever(status) == FALSE

\* isClientError
isClientError(status) == status >= 400 /\ status < 500

\* what one executeOCRRequest can come back with: 0 stands for an error that
\* is no OCRError (transport, decode, validation), 200 for a valid response
ProviderStatuses == {200, 400, 429, 500, 0}

OInit ==
    /\ ocrLimiter = 0
    /\ ocrLimiterCur = 0
    /\ opc = [k \in OCRCalls |-> "idle"]
    /\ okind = [k \in OCRCalls |-> "pdf"]
    /\ oattempt = [k \in OCRCalls |-> 0]
    /\ octxDone = [k \in OCRCalls |-> FALSE]
    /\ oreqs = [k \in OCRCalls |-> 0]
    /\ oresult = [k \in OCRCalls |-> ""]
    /\ ostatus = [k \in OCRCalls |-> -1]

\* the deferred limiter.Release(1) of withConcurrencyLimit
OCRRelease == IF ocrLimiter = 0 THEN ocrLimiterCur ELSE ocrLimiterCur - 1

\* A request's extractor calls RunMistralOCR (PDF) or RunMistralImageOCR.
RunMistralOCR(k) ==
    /\ opc[k] = "idle"
    /\ \A q \in OCRCalls : q < k => opc[q] # "idle"
    /\ \E kind \in {"pdf", "image"} : okind' = [okind EXCEPT ![k] = kind]
    /\ opc' = [opc EXCEPT ![k] = "gate"]
    /\ UNCHANGED <<ocrLimiter, ocrLimiterCur, oattempt, octxDone, oreqs, oresult, ostatus>>

\* The caller's deadline fires.
OCRDeadline(k) ==
    /\ opc[k] \in {"gate", "attempt", "backoff"}
    /\ ~octxDone[k]
    /\ octxDone' = [octxDone EXCEPT ![k] = TRUE]
    /\ UNCHANGED <<ocrLimiter, ocrLimiterCur, opc, okind, oattempt, oreqs, oresult, ostatus>>

\* withConcurrencyLimit: with a nil limiter fn runs at once; otherwise a permit
\* is acquired first, or the context's error returned.  fn's first attempt
\* sends a request.
OCRGate(k) ==
    /\ opc[k] = "gate"
    /\ IF ocrLimiter = 0
       THEN /\ opc' = [opc EXCEPT ![k] = "attempt"]
            /\ oreqs' = [oreqs EXCEPT ![k] = @ + 1]
            /\ UNCHANGED <<ocrLimiterCur, oresult, ostatus>>
       ELSE IF octxDone[k]
            THEN /\ opc' = [opc EXCEPT ![k] = "done"]
                 /\ oresult' = [oresult EXCEPT ![k] = "deadline"]
                 /\ UNCHANGED <<ocrLimiterCur, oreqs, ostatus>>
            ELSE /\ ocrLimiterCur < ocrLimiter
                 /\ ocrLimiterCur' = ocrLimiterCur + 1
                 /\ opc' = [opc EXCEPT ![k] = "attempt"]
                 /\ oreqs' = [oreqs EXCEPT ![k] = @ + 1]
                 /\ UNCHANGED oresult
    /\ UNCHANGED <<ocrLimiter, okind, oattempt, octxDone, ostatus>>

\* executeOCRRequest returns: success ends the call, a 4xx OCRError breaks the
\* loop, any other error goes to the next attempt if one is left.
ExecuteOCRRequest(k) ==
    /\ opc[k] = "attempt"
    /\ \E st \in (IF octxDone[k] THEN {0} ELSE ProviderStatuses) :
          /\ ostatus' = [ostatus EXCEPT ![k] = st]
          /\ IF st = 200
             THEN /\ opc' = [opc EXCEPT ![k] = "done"]
                  /\ oresult' = [oresult EXCEPT ![k] = "ok"]
                  /\ ocrLimiterCur' = OCRRelease
                  /\ UNCHANGED oattempt
             ELSE IF isClientError(st) \/ oattempt[k] + 1 > maxRetries
                  THEN /\ opc' = [opc EXCEPT ![k] = "done"]
                       /\ oresult' = [oresult EXCEPT ![k] = "failed"]
                       /\ ocrLimiterCur' = OCRRelease
                       /\ UNCHANGED oattempt
                  ELSE /\ opc' = [opc EXCEPT ![k] = "backoff"]
                       /\ oattempt' = [oattempt EXCEPT ![k] = @ + 1]
                       /\ UNCHANGED <<oresult, ocrLimiterCur>>
    /\ UNCHANGED <<ocrLimiter, okind, octxDone, oreqs>>

\* The select before a further attempt: the context is done and its error is
\* returned, or the delay has passed and the next request is sent.
OCRBackoff(k) ==
    /\ opc[k] = "backoff"
    /\ \/ /\ octxDone[k]
          /\ opc' = [opc EXCEPT ![k] = "done"]
          /\ oresult' = [oresult EXCEPT ![k] = "deadline"]
          /\ ocrLimiterCur' = OCRRelease
          /\ UNCHANGED oreqs
       \/ /\ opc' = [opc EXCEPT ![k] = "attempt"]
          /\ oreqs' = [oreqs EXCEPT ![k] = @ + 1]
          /\ UNCHANGED <<oresult, ocrLimiterCur, ostatus>>
    /\ UNCHANGED <<ocrLimiter, okind, oattempt, octxDone, ostatus>>

ONext ==
    \/ \E k \in OCRCalls : RunMistralOCR(k) /\ UNCHANGED <<hvars, svars, jvars, rvars, tvars, fvars, uvars, pvars, xvars, yvars>>
    \/ \E k \in OCRCalls : OCRDeadline(k) /\ UNCHANGED <<hvars, svars, jvars, rvars, tvars, fvars, uvars, pvars, xvars, yvars>>
    \/ \E k \in OCRCalls : OCRGate(k) /\ UNCHANGED <<hvars, svars, jvars, rvars, tvars, fvars, uvars, pvars, xvars, yvars>>
    \/ \E k \in OCRCalls : ExecuteOCRRequest(k) /\ UNCHANGED <<hvars, svars, jvars, rvars, tvars, fvars, uvars, pvars, xvars, yvars>>
    \/ \E k \in OCRCalls : OCRBackoff(k) /\ UNCHANGED <<hvars, svars, jvars, rvars, tvars, fvars, uvars, pvars, xvars, yvars>>

(***************************************************************************)
(* Extractor registry: Registry.Register at startup, Registry.Resolve per  *)
(* request.  A string is a sequence of tokens, so that ToLower, TrimSpace, *)
(* Index and HasPrefix do what package strings does.                       *)
(***************************************************************************)
\* strings.ToLower on one token
LowerTok(t) ==
    CASE t = "TEXT" -> "text"
      [] t = "PLAIN" -> "plain"
      [] t = "GO" -> "go"
      [] t = "S" -> "s"
      [] OTHER -> t

ToLower(str) == [i \in 1..Len(str) |-> LowerTok(str[i])]

RECURSIVE TrimLeft(_)
TrimLeft(str) ==
    IF str # <<>> /\ Head(str) = " " THEN TrimLeft(Tail(str)) ELSE str

RECURSIVE TrimRight(_)
TrimRight(str) ==
    IF str # <<>> /\ str[Len(str)] = " "
    THEN TrimRight(SubSeq(str, 1, Len(str) - 1))
    ELSE str

TrimSpace(str) == TrimRight(TrimLeft(str))

\* strings.Index for a one-token needle: 0-based, -1 when absent
Index(str, tok) ==
    IF \E i \in 1..Len(str) : str[i] = tok
    THEN (CHOOSE i \in 1..Len(str) :
              /\ str[i] = tok
              /\ \A q \in 1..(i - 1) : str[q] # tok) - 1
    ELSE -1

HasPrefix(str, prefix) ==
    /\ Len(str) >= Len(prefix)
    /\ SubSeq(str, 1, Len(prefix)) = prefix

TextPlain == <<"text", "/", "plain">>

\* the extractors of the model: the plain-text, source-code, image and XML
\* extractors with a part of their lists
ExtractorNames == {"text", "code/source", "image", "structured/xml"}

SupportedTypes(e) ==
    CASE e = "text" -> {TextPlain}
      [] e = "code/source" -> {}
      [] e = "image" -> {<<"image", "/", "svg+xml">>}
      [] e = "structured/xml" -> {<<"text", "/", "xml">>}

SupportedExtensions(e) ==
    CASE e = "text" -> {<<".", "txt">>}
      [] e = "code/source" -> {<<".", "go">>, <<".", "s">>, <<".", "S">>}
      [] e = "image" -> {<<".", "svg">>}
      [] e = "structured/xml" -> {<<".", "xml">>, <<".", "svg">>}

\* the MIME types and extensions Resolve is asked about
QueryMIMEs ==
    { TextPlain,
      <<"TEXT", "/", "PLAIN">>,
      <<"text", "/", "plain", " ", ";", "charset">>,
      <<"text", "/", "x-go">>,
      <<"text", "/", "xml">>,
      <<"text", "/", "xml", ";", "charset">>,
      <<"image", "/", "svg+xml">>,
      <<"application", "/", "zip">>,
      <<>> }

QueryExtensions ==
    { <<".", "go">>, <<".", "GO">>, <<" ", ".", "go">>, <<".", "S">>,
      <<".", "txt">>, <<".", "svg">>, <<".", "zip">>, <<>> }

\* the keys the loops of Register store for one list
RegisterKeys(list) == {ToLower(TrimSpace(x)) : x \in list} \ {<<>>}

\* map[key] = e for every key
MapStore(map, keys, e) ==
    [k \in (DOMAIN map) \cup keys |-> IF k \in keys THEN e ELSE map[k]]

NotResolved == [called |-> FALSE, mime |-> <<>>, ext |-> <<>>, name |-> "", err |-> FALSE]

RInit ==
    /\ regPhase = "startup"
    /\ extractors = <<>>
    /\ byMIME = [k \in {} |-> ""]
    /\ byExtension = [k \in {} |-> ""]
    /\ resolved = NotResolved

\* Registry.Register, called by main() before the server listens
Register(e) ==
    /\ regPhase = "startup"
    /\ Len(extractors) < MaxRegistrations
    /\ e \notin Range(extractors)
    /\ extractors' = Append(extractors, e)
    /\ byMIME' = MapStore(byMIME, RegisterKeys(SupportedTypes(e)), e)
    /\ byExtension' = MapStore(byExtension, RegisterKeys(SupportedExtensions(e)), e)
    /\ UNCHANGED <<regPhase, resolved>>

\* main() goes on to serve requests
StartServing ==
    /\ regPhase = "startup"
    /\ regPhase' = "serving"
    /\ UNCHANGED <<extractors, byMIME, byExtension, resolved>>

\* Resolve with the MIME lookups before the extension lookup
ResolveMimeFirst(bm, be, mimeType, extension) ==
    LET mt == ToLower(TrimSpace(mimeType))
        ext == ToLower(TrimSpace(extension))
        i == Index(mt, ";")
    IN  IF mt \in DOMAIN bm THEN bm[mt]
        ELSE IF i > 0 /\ TrimSpace(SubSeq(mt, 1, i)) \in DOMAIN bm
             THEN bm[TrimSpace(SubSeq(mt, 1, i))]
        ELSE IF HasPrefix(mt, <<"text", "/">>) /\ TextPlain \in DOMAIN bm
             THEN bm[TextPlain]
        ELSE IF ext \in DOMAIN be THEN be[ext]
        ELSE ""

\* Resolve without the lookup of the MIME type stripped of its parameters
ResolveNoStrip(bm, be, mimeType, extension) ==
    LET mt == ToLower(TrimSpace(mimeType))
        ext == ToLower(TrimSpace(extension))
    IN  IF ext \in DOMAIN be THEN be[ext]
        ELSE IF mt \in DOMAIN bm THEN bm[mt]
        ELSE IF HasPrefix(mt, <<"text", "/">>) /\ TextPlain \in DOMAIN bm
             THEN bm[TextPlain]
        ELSE ""

\* Registry.Resolve: the extractor's name, "" for the no-extractor error
Resolve(bm, be, mimeType, extension) ==
    LET mt == ToLower(TrimSpace(mimeType))
        ext == ToLower(TrimSpace(extension))
        i == Index(mt, ";")
    IN  IF ext \in DOMAIN be THEN be[ext]
        ELSE IF mt \in DOMAIN bm THEN bm[mt]
        ELSE IF i > 0 /\ TrimSpace(SubSeq(mt, 1, i)) \in DOMAIN bm
             THEN bm[TrimSpace(SubSeq(mt, 1, i))]
        ELSE IF HasPrefix(mt, <<"text", "/">>) /\ TextPlain \in DOMAIN bm
             THEN bm[TextPlain]
        ELSE ""

\* A request's Router.Extract or handlePreview calls Resolve.
ResolveCall ==
    /\ regPhase = "serving"
    /\ \E mimeType \in QueryMIMEs, extension \in QueryExtensions :
          LET e == Resolve(byMIME, byExtension, mimeType, extension)
          IN  resolved' = [called |-> TRUE, mime |-> mimeType, ext |-> extension,
                           name |-> e, err |-> (e = "")]
    /\ UNCHANGED <<regPhase, extractors, byMIME, byExtension>>

RNext ==
    \/ \E e \in ExtractorNames : Register(e) /\ UNCHANGED <<hvars, svars, jvars, ovars, tvars, fvars, uvars, pvars, xvars, yvars>>
    \/ StartServing /\ UNCHANGED <<hvars, svars, jvars, ovars, tvars, fvars, uvars, pvars, xvars, yvars>>
    \/ ResolveCall /\ UNCHANGED <<hvars, svars, jvars, ovars, tvars, fvars, uvars, pvars, xvars, yvars>>

(***************************************************************************)
(* Router.Extract: download, resolution, the extractor's size limit, the   *)
(* extractor's answer and what the Router makes of it.                     *)
(***************************************************************************)
\* extract.Result, as far as the Router touches it ("none": nil Error)
NoResult == [Success |-> FALSE, Error |-> "none", FileType |-> "", MIMEType |-> ""]

\* errResult
errResult(message) ==
    [Success |-> FALSE, Error |-> message, FileType |-> "", MIMEType |-> ""]

\* req.PresignedURL: blank, refused by validateDownloadURL, or accepted
RouterURLKinds == {"blank", "rejected", "clean"}

\* lengths of the body the download server sends
BodyLengths == 0..(MaxFileBytes + 2)

\* what sniffMIMEType and the Content-Type header leave in dl.MIMEType
SniffedMIMEs == {"text/plain", ""}

\* the extractors Resolve can answer with: MaxFileSize 0 is the test stub's
\* "no limit", 1 a limit below cfg.MaxFileBytes (MAX_CODE_FILE_BYTES), the last
\* cfg.MaxFileBytes itself
RouterExtractors ==
    { [name |-> "stub", max |-> 0],
      [name |-> "code/source", max |-> 1],
      [name |-> "document/docx", max |-> MaxFileBytes] }

NoExtractor == [name |-> "", max |-> 0]

\* what Extract of the repository's extractors returns: a successful Result and
\* no error; a failed Result with its own message and the error; a bare
\* Result{Success: false} with ctx.Err()
ExtractorOutcomes(e, mime) ==
    { [res |-> [Success |-> TRUE, Error |-> "none", FileType |-> e.name, MIMEType |-> mime],
       err |-> "none"],
      [res |-> [Success |-> TRUE, Error |-> "none", FileType |-> e.name, MIMEType |-> ""],
       err |-> "none"],
      [res |-> [Success |-> FALSE, Error |-> "extractor message", FileType |-> e.name,
                MIMEType |-> mime],
       err |-> "extractor error"],
      [res |-> [Success |-> FALSE, Error |-> "none", FileType |-> "", MIMEType |-> ""],
       err |-> "context deadline exceeded"] }

TInit ==
    /\ tpc = "idle"
    /\ turl = "clean"
    /\ tbody = 0
    /\ lrN = 0
    /\ tcopied = 0
    /\ tdl = [Size |-> 0, MIMEType |-> ""]
    /\ textractor = NoExtractor
    /\ tres = NoResult
    /\ terr = "none"
    /\ hookCalls = <<>>
    /\ tstatus = 0

\* Router.Extract returns res, err
RouterReturn(res, err) ==
    /\ tres' = res
    /\ terr' = err
    /\ tpc' = "returned"

\* Router.Extract is called; a blank presignedUrl is answered at once.
RouterExtract ==
    /\ tpc = "idle"
    /\ \E kind \in RouterURLKinds :
          /\ turl' = kind
          /\ IF kind = "blank"
             THEN RouterReturn(errResult("presignedUrl required"), "presignedUrl required")
             ELSE /\ tpc' = "download"
                  /\ UNCHANGED <<tres, terr>>
    /\ UNCHANGED <<tbody, lrN, tcopied, tdl, textractor, hookCalls, tstatus>>

\* DownloadToTemp fails before the body is copied: errResult(err.Error()), err.
RouterDownloadFails ==
    /\ tpc = "download"
    /\ \E msg \in (IF turl = "rejected"
                   THEN {"invalid download URL"}
                   ELSE {"temp dir", "download", "download failed: HTTP", "create"}) :
          RouterReturn(errResult(msg), msg)
    /\ UNCHANGED <<turl, tbody, lrN, tcopied, tdl, textractor, hookCalls, tstatus>>

\* The server answers 200 with a body; the copy goes through
\* io.LimitedReader{N: maxBytes + 1}.
RouterDownloadBody ==
    /\ tpc = "download"
    /\ turl = "clean"
    /\ \E n \in BodyLengths : tbody' = n
    /\ lrN' = MaxFileBytes + 1
    /\ tcopied' = 0
    /\ tpc' = "copy"
    /\ UNCHANGED <<turl, tdl, textractor, tres, terr, hookCalls, tstatus>>

\* io.Copy moves one more byte from the limited reader to the file.
CopyByte ==
    /\ tpc = "copy"
    /\ lrN > 0
    /\ tcopied < tbody
    /\ lrN' = lrN - 1
    /\ tcopied' = tcopied + 1
    /\ UNCHANGED <<tpc, turl, tbody, tdl, textractor, tres, terr, hookCalls, tstatus>>

\* the size test taken at maxBytes already
ExceedsLimitAtMax(n, maxBytes) == n >= maxBytes

\* the size test of DownloadToTemp on the n bytes io.Copy reported
ExceedsLimit(n, maxBytes) == n > maxBytes

\* io.Copy ends (the reader is exhausted, the body is, or a write fails); then
\* the size test, f.Sync and the MIME sniffing.
CopyEnds ==
    /\ tpc = "copy"
    /\ \/ /\ lrN = 0 \/ tcopied = tbody
          /\ IF ExceedsLimit(tcopied, MaxFileBytes)
             THEN /\ RouterReturn(errResult("file exceeds limit"), "file exceeds limit")
                  /\ UNCHANGED tdl
             ELSE \/ /\ RouterReturn(errResult("sync"), "sync")
                     /\ UNCHANGED tdl
                  \/ /\ \E mt \in SniffedMIMEs : tdl' = [Size |-> tcopied, MIMEType |-> mt]
                     /\ tpc' = "resolve"
                     /\ UNCHANGED <<tres, terr>>
       \/ /\ RouterReturn(errResult("write"), "write")
          /\ UNCHANGED tdl
    /\ UNCHANGED <<turl, tbody, lrN, tcopied, textractor, hookCalls, tstatus>>

\* registry.Resolve(dl.MIMEType, ext): an extractor, or the no-extractor error
RouterResolve ==
    /\ tpc = "resolve"
    /\ \/ /\ RouterReturn([Success |-> FALSE, Error |-> "no extractor registered",
                           FileType |-> "unknown", MIMEType |-> tdl.MIMEType],
                          "no extractor registered")
          /\ UNCHANGED textractor
       \/ /\ \E e \in RouterExtractors : textractor' = e
          /\ tpc' = "limit"
          /\ UNCHANGED <<tres, terr>>
    /\ UNCHANGED <<turl, tbody, lrN, tcopied, tdl, hookCalls, tstatus>>

\* the extractor's own limit: max > 0 && dl.Size > max
RouterLimit ==
    /\ tpc = "limit"
    /\ IF textractor.max > 0 /\ tdl.Size > textractor.max
       THEN RouterReturn([Success |-> FALSE, Error |-> "file exceeds extractor limit",
                          FileType |-> textractor.name, MIMEType |-> tdl.MIMEType],
                         "file exceeds extractor limit")
       ELSE /\ tpc' = "extract"
            /\ UNCHANGED <<tres, terr>>
    /\ UNCHANGED <<turl, tbody, lrN, tcopied, tdl, textractor, hookCalls, tstatus>>

\* the Router's treatment that leaves the extractor's Result as it came
RouterFinishAsIs(res, err, mime) ==
    [res EXCEPT !.MIMEType = IF @ = "" THEN mime ELSE @]

\* what Router.Extract makes of the extractor's res, err
RouterFinish(res, err, mime) ==
    IF err # "none"
    THEN [res EXCEPT !.Error = IF @ = "none" THEN err ELSE @,
                     !.Success = FALSE,
                     !.MIMEType = IF @ = "" THEN mime ELSE @]
    ELSE [res EXCEPT !.Success = TRUE,
                     !.MIMEType = IF @ = "" THEN mime ELSE @]

\* extractor.Extract returns and Router.Extract returns after it; the Router of
\* the repository calls no hook.
RouterExtractorReturns ==
    /\ tpc = "extract"
    /\ \E out \in ExtractorOutcomes(textractor, tdl.MIMEType) :
          RouterReturn(RouterFinish(out.res, out.err, tdl.MIMEType), out.err)
    /\ UNCHANGED <<turl, tbody, lrN, tcopied, tdl, textractor, hookCalls, tstatus>>

\* handleUniversalExtract writes what Router.Extract returned: 400 with the
\* Result when err is not nil, 200 with the Result otherwise.
HandleUniversalExtractWrite ==
    /\ tpc = "returned"
    /\ tstatus' = IF terr # "none" THEN 400 ELSE 200
    /\ tpc' = "written"
    /\ UNCHANGED <<turl, tbody, lrN, tcopied, tdl, textractor, tres, terr, hookCalls>>

TNext ==
    \/ RouterExtract /\ UNCHANGED <<hvars, svars, jvars, ovars, rvars, fvars, uvars, pvars, xvars, yvars>>
    \/ RouterDownloadFails /\ UNCHANGED <<hvars, svars, jvars, ovars, rvars, fvars, uvars, pvars, xvars, yvars>>
    \/ RouterDownloadBody /\ UNCHANGED <<hvars, svars, jvars, ovars, rvars, fvars, uvars, pvars, xvars, yvars>>
    \/ CopyByte /\ UNCHANGED <<hvars, svars, jvars, ovars, rvars, fvars, uvars, pvars, xvars, yvars>>
    \/ CopyEnds /\ UNCHANGED <<hvars, svars, jvars, ovars, rvars, fvars, uvars, pvars, xvars, yvars>>
    \/ RouterResolve /\ UNCHANGED <<hvars, svars, jvars, ovars, rvars, fvars, uvars, pvars, xvars, yvars>>
    \/ RouterLimit /\ UNCHANGED <<hvars, svars, jvars, ovars, rvars, fvars, uvars, pvars, xvars, yvars>>
    \/ RouterExtractorReturns /\ UNCHANGED <<hvars, svars, jvars, ovars, rvars, fvars, uvars, pvars, xvars, yvars>>
    \/ HandleUniversalExtractWrite /\ UNCHANGED <<hvars, svars, jvars, ovars, rvars, fvars, uvars, pvars, xvars, yvars>>

(***************************************************************************)
(* Phase 4 of ProcessHybrid on results of any size: the totals of a result *)
(* with a given number of pages, some of them with method ocr.             *)
(***************************************************************************)
FInit ==
    /\ fpc = "idle"
    /\ fPages = 0
    /\ fTotals = [OCRPages |-> 0, TextLayerPages |-> 0, TotalPages |-> 0,
                  CostSavingsPercent |-> 0]

\* Phase 4 for a document of total pages, all planned, ocr of them with method
\* ocr after the merge
Phase4Totals ==
    /\ fpc = "idle"
    /\ \E total \in 1..MaxSavingsPages :
          \E ocr \in 0..total :
             /\ fPages' = total
             /\ fTotals' = [OCRPages |-> ocr,
                            TextLayerPages |-> total - ocr,
                            TotalPages |-> total,
                            CostSavingsPercent |-> calculateSavings(total - ocr, total)]
    /\ fpc' = "done"

FNext ==
    \/ Phase4Totals /\ UNCHANGED <<hvars, svars, jvars, ovars, rvars, tvars, uvars, pvars, xvars, yvars>>

(***************************************************************************)
(* validateDownloadURL.  A host is a name (a sequence of tokens) or a      *)
(* literal IPv4 address (its four bytes), as net.ParseIP tells them apart. *)
(***************************************************************************)
NameHost(tokens) == [kind |-> "name", name |-> tokens, ip |-> <<>>]
IPHost(a, b, c, d) == [kind |-> "ip", name |-> <<>>, ip |-> <<a, b, c, d>>]

\* the hosts of the URLs validated in the model
URLHosts ==
    { NameHost(<<>>),
      NameHost(<<"example", ".", "com">>),
      NameHost(<<"localhost">>),
      NameHost(<<"app", ".", "localhost">>),
      NameHost(<<"localhost", ".", "example", ".", "com">>),
      IPHost(93, 184, 216, 34),
      IPHost(127, 0, 0, 1),
      IPHost(169, 254, 1, 1),
      IPHost(10, 0, 0, 5),
      IPHost(172, 16, 0, 1),
      IPHost(172, 32, 0, 1),
      IPHost(192, 168, 1, 5),
      IPHost(100, 64, 0, 1),
      IPHost(100, 128, 0, 1),
      IPHost(224, 0, 0, 1),
      IPHost(239, 1, 1, 1),
      IPHost(0, 0, 0, 0) }

\* the schemes, already lowercased
URLSchemes == {"https", "http", "ftp", ""}

\* net.IP predicates on the four bytes
IsLoopback(ip) == ip[1] = 127
IsLinkLocalUnicast(ip) == ip[1] = 169 /\ ip[2] = 254
IsLinkLocalMulticast(ip) == ip[1] = 224 /\ ip[2] = 0 /\ ip[3] = 0
IsMulticast(ip) == ip[1] >= 224 /\ ip[1] <= 239
IsUnspecified(ip) == ip = <<0, 0, 0, 0>>
IsPrivate(ip) ==
    \/ ip[1] = 10
    \/ ip[1] = 172 /\ ip[2] >= 16 /\ ip[2] <= 31
    \/ ip[1] = 192 /\ ip[2] = 168
IsCGNAT(ip) == ip[1] = 100 /\ ip[2] >= 64 /\ ip[2] <= 127

\* isPrivateOrLocalIP without the carrier-grade NAT range
isPrivateOrLocalIPNoCGNAT(ip) ==
    \/ IsLoopback(ip) \/ IsLinkLocalMulticast(ip) \/ IsLinkLocalUnicast(ip)
    \/ IsMulticast(ip) \/ IsUnspecified(ip)
    \/ IsPrivate(ip)

\* isPrivateOrLocalIP
isPrivateOrLocalIP(ip) ==
    \/ IsLoopback(ip) \/ IsLinkLocalMulticast(ip) \/ IsLinkLocalUnicast(ip)
    \/ IsMulticast(ip) \/ IsUnspecified(ip)
    \/ IsPrivate(ip)
    \/ IsCGNAT(ip)

\* host == "localhost" || strings.HasSuffix(host, ".localhost")
IsLocalName(h) ==
    /\ h.kind = "name"
    /\ \/ h.name = <<"localhost">>
       \/ /\ Len(h.name) >= 2
          /\ SubSeq(h.name, Len(h.name) - 1, Len(h.name)) = <<".", "localhost">>

\* validateDownloadURL: TRUE when it returns nil
ValidateDownloadURL(u, allowPrivate) ==
    LET isLocalName == IsLocalName(u.host)
        isPrivateIP == u.host.kind = "ip" /\ isPrivateOrLocalIP(u.host.ip)
    IN  IF ~u.parses THEN FALSE
        ELSE IF u.host = NameHost(<<>>) THEN FALSE
        ELSE IF u.scheme = "http" /\ ~(allowPrivate /\ (isLocalName \/ isPrivateIP))
             THEN FALSE
        ELSE IF u.scheme \notin {"https", "http"} THEN FALSE
        ELSE IF isLocalName \/ isPrivateIP THEN allowPrivate
        ELSE TRUE

UInit ==
    /\ upc = "idle"
    /\ uurl = [parses |-> TRUE, scheme |-> "https", host |-> NameHost(<<>>)]
    /\ uallow = FALSE
    /\ uaccepted = FALSE

\* DownloadToTemp validates the URL of a request under the deployment's
\* ALLOW_PRIVATE_DOWNLOAD_URLS.
ValidateCall ==
    /\ upc = "idle"
    /\ \E ok \in BOOLEAN, scheme \in URLSchemes, h \in URLHosts, allow \in BOOLEAN :
          LET u == [parses |-> ok, scheme |-> scheme, host |-> h]
          IN  /\ uurl' = u
              /\ uallow' = allow
              /\ uaccepted' = ValidateDownloadURL(u, allow)
    /\ upc' = "done"

UNext ==
    \/ ValidateCall /\ UNCHANGED <<hvars, svars, jvars, ovars, rvars, tvars, fvars, pvars, xvars, yvars>>

(***************************************************************************)
(* handlePreview and Processor.ProcessPreview.                             *)
(***************************************************************************)
\* Name() of the extractors main registers
RegisteredExtractors ==
    { "document/pdf", "image", "text", "document/html", "document/rtf",
      "structured/csv", "structured/json", "structured/xml", "structured/yaml",
      "code/source", "code/notebook", "code/latex",
      "document/docx", "document/xlsx", "document/pptx", "document/legacy-office",
      "document/opendocument", "document/epub", "media/audio", "media/video" }

\* The sets of providers one run of an extractor's Extract may invoke: the
\* image extractor classifies with the vision provider and may then run OCR,
\* audio and video transcribe, the PDF extractor runs the hybrid pipeline with
\* its OCR phase; every other extractor works locally.
ExtractProviderCalls(name) ==
    CASE name = "image" -> {{}, {"vision"}, {"vision", "ocr"}}
      [] name \in {"media/audio", "media/video"} -> {{}, {"transcription"}}
      [] name = "document/pdf" -> {{}, {"ocr"}}
      [] OTHER -> {{}}

\* isPreviewAllowed letting every file type through
isPreviewAllowedAny(fileType) == TRUE

\* isPreviewAllowed
isPreviewAllowed(fileType) ==
    fileType \in
        { "document/pdf", "document/docx", "document/xlsx", "document/pptx",
          "document/opendocument", "document/epub", "document/rtf",
          "document/html", "text", "structured/csv", "structured/json",
          "structured/xml", "structured/yaml", "code/source", "code/notebook",
          "code/latex" }

\* MaxFileSize() of the registered extractors: cfg.MaxCodeFileBytes for the
\* text, structured and code families, cfg.MaxFileBytes for the office,
\* OpenDocument and e-book families; the PDF, image, audio and video limits are
\* taken at cfg.MaxFileBytes
PreviewMaxFileSize(name) ==
    IF name \in { "text", "document/html", "document/rtf", "structured/csv",
                  "structured/json", "structured/xml", "structured/yaml",
                  "code/source", "code/notebook", "code/latex" }
    THEN MaxCodeFileBytes
    ELSE MaxFileBytes

\* DEFAULT_PREVIEW_NEEDS_OCR_RATIO, 0.25, as numerator and denominator
DefaultPreviewNeedsOCRRatio == <<1, 4>>

\* the number of pages ProcessPreview extracts
PreviewPageCount(previewMaxPages, total) ==
    LET capped == IF previewMaxPages > total THEN total ELSE previewMaxPages
    IN  IF capped < 1 THEN 1 ELSE capped

PInit ==
    /\ ppc = "idle"
    /\ pextractor = ""
    /\ ptotalPages = 0
    /\ ppages = <<>>
    /\ pneedsOCR = FALSE
    /\ pstatus = 0
    /\ pran = ""
    /\ providerCalls = {}
    /\ psize = 0

\* writeErr / writeJSON followed by return
PreviewWrite(status) ==
    /\ pstatus' = status
    /\ ppc' = "done"

\* parseJSON, the presignedUrl check and DownloadToTemp with cfg.MaxFileBytes:
\* any of them failing answers 400.
PreviewDownload ==
    /\ ppc = "idle"
    /\ \/ /\ PreviewWrite(400)
          /\ UNCHANGED psize
       \/ /\ ppc' = "resolve"
          /\ \E size \in 0..MaxFileBytes : psize' = size
          /\ UNCHANGED pstatus
    /\ UNCHANGED <<pextractor, ptotalPages, ppages, pneedsOCR, pran, providerCalls>>

\* extractReg.Resolve: an error answers 400 with FileType "unknown".
PreviewResolve ==
    /\ ppc = "resolve"
    /\ \/ /\ PreviewWrite(400)
          /\ pextractor' = "unknown"
       \/ /\ \E name \in RegisteredExtractors : pextractor' = name
          /\ ppc' = "allowed"
          /\ UNCHANGED pstatus
    /\ UNCHANGED <<ptotalPages, ppages, pneedsOCR, pran, providerCalls, psize>>

\* if !isPreviewAllowed(extractor.Name()) answers 400; a PDF goes to
\* ProcessPreview, every other type to its extractor.
PreviewCheckAllowed ==
    /\ ppc = "allowed"
    /\ IF ~isPreviewAllowed(pextractor)
       THEN PreviewWrite(400)
       ELSE /\ ppc' = IF pextractor = "document/pdf" THEN "pagecount" ELSE "extract"
            /\ UNCHANGED pstatus
    /\ UNCHANGED <<pextractor, ptotalPages, ppages, pneedsOCR, pran, providerCalls, psize>>

\* ProcessPreview when extractor.PageCount fails: prev.Error is set and the
\* handler answers 400.
ProcessPreviewPageCountFails ==
    /\ ppc = "pagecount"
    /\ PreviewWrite(400)
    /\ UNCHANGED <<pextractor, ptotalPages, ppages, pneedsOCR, pran, providerCalls, psize>>

\* ProcessPreview: the page count, the text layer of the first pages through
\* extractPagesParallel, whose result per page is a text-layer page or a page
\* flagged needs-ocr, and NeedsOCR from the flagged fraction; answers 200.
ProcessPreview ==
    /\ ppc = "pagecount"
    /\ \E total \in 1..MaxPages, previewMaxPages \in 0..MaxPages :
          LET n == PreviewPageCount(previewMaxPages, total)
          IN  \E pageResults \in [1..n -> {"text-layer", "needs-ocr"}] :
                 LET needsOCR == Cardinality({i \in 1..n : pageResults[i] = "needs-ocr"})
                 IN  /\ ptotalPages' = total
                     /\ ppages' = pageResults
                     /\ pneedsOCR' =
                           (needsOCR * DefaultPreviewNeedsOCRRatio[2]
                               > DefaultPreviewNeedsOCRRatio[1] * n)
    /\ PreviewWrite(200)
    /\ UNCHANGED <<pextractor, pran, providerCalls, psize>>

\* extractor.Extract for a type other than PDF: 400 when it fails, 200 otherwise.
PreviewExtract ==
    /\ ppc = "extract"
    /\ pran' = pextractor
    /\ \E calls \in ExtractProviderCalls(pextractor) :
          providerCalls' = providerCalls \cup calls
    /\ \E status \in {200, 400} : PreviewWrite(status)
    /\ UNCHANGED <<pextractor, ptotalPages, ppages, pneedsOCR, psize>>

PNext ==
    \/ PreviewDownload /\ UNCHANGED <<hvars, svars, jvars, ovars, rvars, tvars, fvars, uvars, xvars, yvars>>
    \/ PreviewResolve /\ UNCHANGED <<hvars, svars, jvars, ovars, rvars, tvars, fvars, uvars, xvars, yvars>>
    \/ PreviewCheckAllowed /\ UNCHANGED <<hvars, svars, jvars, ovars, rvars, tvars, fvars, uvars, xvars, yvars>>
    \/ ProcessPreviewPageCountFails /\ UNCHANGED <<hvars, svars, jvars, ovars, rvars, tvars, fvars, uvars, xvars, yvars>>
    \/ ProcessPreview /\ UNCHANGED <<hvars, svars, jvars, ovars, rvars, tvars, fvars, uvars, xvars, yvars>>
    \/ PreviewExtract /\ UNCHANGED <<hvars, svars, jvars, ovars, rvars, tvars, fvars, uvars, xvars, yvars>>

(***************************************************************************)
(* TextForPage: pdftotext under exec.CommandContext with the sub-deadline, *)
(* its stdout read through io.LimitReader by runCommandCaptureLimited, and *)
(* classifyPdftotextErr.                                                   *)
(***************************************************************************)
\* the sizes of a page's text, up to one more than cap and pipe hold together
ToolOutputs == 0..(maxPerPageBytes + PipeCapacity + 1)

ToolStderrs == {"", "Syntax Error"}

XInit ==
    /\ xpc = "idle"
    /\ xproc = "none"
    /\ xleft = 0
    /\ xpipe = 0
    /\ xout = 0
    /\ xstderr = ""
    /\ xdeadline = FALSE
    /\ xerr = "none"

\* what runCommandCaptureLimited returns once cmd.Wait has returned
runCommandCaptureLimited(outLen, maxBytes, proc) ==
    IF outLen >= maxBytes THEN "output exceeds limit"
    ELSE IF proc # "exited" THEN "wait error"
    ELSE "none"

\* classifyPdftotextErr for a page > 0
classifyPdftotextErr(err, deadline, stderr) ==
    IF deadline THEN "pdftotext timeout"
    ELSE IF stderr # "" THEN "PDF file is damaged or corrupted"
    ELSE IF err = "output exceeds limit" THEN "extracted text too large"
    ELSE "pdftotext failed"

\* TextForPage starts pdftotext for a page (cmd.Start).
TextForPageStart ==
    /\ xpc = "idle"
    /\ \E n \in ToolOutputs, e \in ToolStderrs :
          /\ xleft' = n
          /\ xstderr' = e
    /\ xproc' = "running"
    /\ xpc' = "reading"
    /\ UNCHANGED <<xpipe, xout, xdeadline, xerr>>

\* pdftotext writes a byte to stdout; it blocks while the pipe is full.
ToolWrites ==
    /\ xproc = "running"
    /\ xleft > 0
    /\ xpipe < PipeCapacity
    /\ xleft' = xleft - 1
    /\ xpipe' = xpipe + 1
    /\ UNCHANGED <<xpc, xproc, xout, xstderr, xdeadline, xerr>>

\* pdftotext has written everything and exits, with status 0 or not.
ToolExits ==
    /\ xproc = "running"
    /\ xleft = 0
    /\ \E st \in {"exited", "failed"} : xproc' = st
    /\ UNCHANGED <<xpc, xleft, xpipe, xout, xstderr, xdeadline, xerr>>

\* The sub-deadline fires and exec.CommandContext kills the process.
SubDeadlineFires ==
    /\ xpc \in {"reading", "waiting"}
    /\ ~xdeadline
    /\ xdeadline' = TRUE
    /\ xproc' = IF xproc = "running" THEN "killed" ELSE xproc
    /\ UNCHANGED <<xpc, xleft, xpipe, xout, xstderr, xerr>>

\* io.ReadAll takes a byte through the LimitReader.
ReadAllByte ==
    /\ xpc = "reading"
    /\ xout < maxPerPageBytes
    /\ xpipe > 0
    /\ xout' = xout + 1
    /\ xpipe' = xpipe - 1
    /\ UNCHANGED <<xpc, xproc, xleft, xstderr, xdeadline, xerr>>

\* io.ReadAll returns: the LimitReader has given maxBytes, or the pipe is empty
\* and closed.  cmd.Wait() is called next.
ReadAllReturns ==
    /\ xpc = "reading"
    /\ \/ xout = maxPerPageBytes
       \/ xpipe = 0 /\ xproc # "running"
    /\ xpc' = "waiting"
    /\ UNCHANGED <<xproc, xleft, xpipe, xout, xstderr, xdeadline, xerr>>

\* cmd.Wait() returns once the process has ended; runCommandCaptureLimited and
\* TextForPage return.
WaitReturns ==
    /\ xpc = "waiting"
    /\ xproc # "running"
    /\ LET err == runCommandCaptureLimited(xout, maxPerPageBytes, xproc)
       IN  xerr' = IF err = "none" THEN "none"
                   ELSE classifyPdftotextErr(err, xdeadline, xstderr)
    /\ xpc' = "returned"
    /\ UNCHANGED <<xproc, xleft, xpipe, xout, xstderr, xdeadline>>

XNext ==
    \/ TextForPageStart /\ UNCHANGED <<hvars, svars, jvars, ovars, rvars, tvars, fvars, uvars, pvars, yvars>>
    \/ ToolWrites /\ UNCHANGED <<hvars, svars, jvars, ovars, rvars, tvars, fvars, uvars, pvars, yvars>>
    \/ ToolExits /\ UNCHANGED <<hvars, svars, jvars, ovars, rvars, tvars, fvars, uvars, pvars, yvars>>
    \/ SubDeadlineFires /\ UNCHANGED <<hvars, svars, jvars, ovars, rvars, tvars, fvars, uvars, pvars, yvars>>
    \/ ReadAllByte /\ UNCHANGED <<hvars, svars, jvars, ovars, rvars, tvars, fvars, uvars, pvars, yvars>>
    \/ ReadAllReturns /\ UNCHANGED <<hvars, svars, jvars, ovars, rvars, tvars, fvars, uvars, pvars, yvars>>
    \/ WaitReturns /\ UNCHANGED <<hvars, svars, jvars, ovars, rvars, tvars, fvars, uvars, pvars, yvars>>

(***************************************************************************)
(* The blocking waits of one /extract request: requestSem.Acquire in       *)
(* withConcurrencyLimit under r.Context(), then, inside the handler and    *)
(* under context.WithTimeout(r.Context(), cfg.UniversalExtractTimeout),    *)
(* the OCR limiter's Acquire and the select between two OCR attempts.      *)
(***************************************************************************)
YInit ==
    /\ ypc = "idle"
    /\ yclock = 0
    /\ yctxDeadline = 0
    /\ yclientGone = FALSE
    /\ ysemBusy = FALSE
    /\ yocrBusy = FALSE
    /\ yattempt = 0
    /\ ystatus = ""

\* r.Context().Done() is closed
RequestCtxDone == yclientGone

\* the Done() of the handler's ctx is closed
ExtractCtxDone == yclientGone \/ (yctxDeadline > 0 /\ yclock >= yctxDeadline)

\* a waiter whose context is done is woken at once
WaitCanBeAbandoned ==
    \/ ypc = "acquire" /\ RequestCtxDone
    \/ ypc \in {"ocrgate", "backoff"} /\ ExtractCtxDone

\* The request reaches withConcurrencyLimit.
WaitsArrive ==
    /\ ypc = "idle"
    /\ \E b1 \in BOOLEAN, b2 \in BOOLEAN :
          /\ ysemBusy' = b1
          /\ yocrBusy' = b2
    /\ ypc' = "acquire"
    /\ UNCHANGED <<yclock, yctxDeadline, yclientGone, yattempt, ystatus>>

\* Acquire returns at once when a permit is free
WaitCanProceed ==
    \/ ypc = "acquire" /\ ~ysemBusy
    \/ ypc = "ocrgate" /\ ~yocrBusy

\* Time passes while the request is under way, unless its wait is over: a
\* permit is free, or a done context is waking it.
WaitsClock ==
    /\ ypc \notin {"idle", "done"}
    /\ yclock < MaxClock
    /\ ~WaitCanBeAbandoned
    /\ ~WaitCanProceed
    /\ yclock' = yclock + 1
    /\ UNCHANGED <<ypc, yctxDeadline, yclientGone, ysemBusy, yocrBusy, yattempt, ystatus>>

\* The client closes the connection.
WaitsClientGoes ==
    /\ ypc \notin {"idle", "done"}
    /\ ~yclientGone
    /\ yclientGone' = TRUE
    /\ UNCHANGED <<ypc, yclock, yctxDeadline, ysemBusy, yocrBusy, yattempt, ystatus>>

\* Another request releases its permit of requestSem, another OCR call its
\* permit of the OCR limiter.
WaitsOthersRelease ==
    /\ ypc \notin {"idle", "done"}
    /\ ysemBusy \/ yocrBusy
    /\ \/ ysemBusy /\ ysemBusy' = FALSE /\ UNCHANGED yocrBusy
       \/ yocrBusy /\ yocrBusy' = FALSE /\ UNCHANGED ysemBusy
    /\ UNCHANGED <<ypc, yclock, yctxDeadline, yclientGone, yattempt, ystatus>>

\* requestSem.Acquire(r.Context(), 1) returns nil; handleUniversalExtract makes
\* ctx with cfg.UniversalExtractTimeout.
WaitsAcquire ==
    /\ ypc = "acquire"
    /\ ~ysemBusy
    /\ yctxDeadline' = yclock + UniversalExtractTimeout
    /\ ypc' = "handler"
    /\ UNCHANGED <<yclock, yclientGone, ysemBusy, yocrBusy, yattempt, ystatus>>

\* requestSem.Acquire(r.Context(), 1) returns the context's error: 503.
WaitsAcquireAbandoned ==
    /\ ypc = "acquire"
    /\ RequestCtxDone
    /\ ystatus' = "capacity"
    /\ ypc' = "done"
    /\ UNCHANGED <<yclock, yctxDeadline, yclientGone, ysemBusy, yocrBusy, yattempt>>

\* The extraction ends without OCR, or reaches RunMistralOCR.
WaitsHandler ==
    /\ ypc = "handler"
    /\ \/ /\ ypc' = "done"
          /\ ystatus' = IF ExtractCtxDone THEN "deadline" ELSE "ok"
       \/ /\ ypc' = "ocrgate"
          /\ UNCHANGED ystatus
    /\ UNCHANGED <<yclock, yctxDeadline, yclientGone, ysemBusy, yocrBusy, yattempt>>

\* ocrLimiter.Acquire(ctx, 1) returns nil and the first attempt starts, or it
\* returns the context's error.
WaitsOCRGate ==
    /\ ypc = "ocrgate"
    /\ \/ /\ ~yocrBusy
          /\ ~ExtractCtxDone
          /\ ypc' = "attempt"
          /\ UNCHANGED ystatus
       \/ /\ ExtractCtxDone
          /\ ypc' = "done"
          /\ ystatus' = "deadline"
    /\ UNCHANGED <<yclock, yctxDeadline, yclientGone, ysemBusy, yocrBusy, yattempt>>

\* executeOCRRequest returns: a result, a 4xx error, or an error that is
\* retried while attempts are left.
WaitsAttempt ==
    /\ ypc = "attempt"
    /\ \/ /\ ~ExtractCtxDone
          /\ ypc' = "done"
          /\ \E st \in {"ok", "ocr failed"} : ystatus' = st
          /\ UNCHANGED yattempt
       \/ /\ yattempt < maxRetries
          /\ yattempt' = yattempt + 1
          /\ ypc' = "backoff"
          /\ UNCHANGED ystatus
       \/ /\ yattempt = maxRetries
          /\ ypc' = "done"
          /\ ystatus' = "ocr failed"
          /\ UNCHANGED yattempt
    /\ UNCHANGED <<yclock, yctxDeadline, yclientGone, ysemBusy, yocrBusy>>

\* select: ctx.Done() returns the context's error, time.After starts the next
\* attempt.
WaitsBackoff ==
    /\ ypc = "backoff"
    /\ \/ /\ ExtractCtxDone
          /\ ypc' = "done"
          /\ ystatus' = "deadline"
       \/ /\ ~ExtractCtxDone
          /\ ypc' = "attempt"
          /\ UNCHANGED ystatus
    /\ UNCHANGED <<yclock, yctxDeadline, yclientGone, ysemBusy, yocrBusy, yattempt>>

YNext ==
    \/ WaitsArrive /\ UNCHANGED <<hvars, svars, jvars, ovars, rvars, tvars, fvars, uvars, pvars, xvars>>
    \/ WaitsClock /\ UNCHANGED <<hvars, svars, jvars, ovars, rvars, tvars, fvars, uvars, pvars, xvars>>
    \/ WaitsClientGoes /\ UNCHANGED <<hvars, svars, jvars, ovars, rvars, tvars, fvars, uvars, pvars, xvars>>
    \/ WaitsOthersRelease /\ UNCHANGED <<hvars, svars, jvars, ovars, rvars, tvars, fvars, uvars, pvars, xvars>>
    \/ WaitsAcquire /\ UNCHANGED <<hvars, svars, jvars, ovars, rvars, tvars, fvars, uvars, pvars, xvars>>
    \/ WaitsAcquireAbandoned /\ UNCHANGED <<hvars, svars, jvars, ovars, rvars, tvars, fvars, uvars, pvars, xvars>>
    \/ WaitsHandler /\ UNCHANGED <<hvars, svars, jvars, ovars, rvars, tvars, fvars, uvars, pvars, xvars>>
    \/ WaitsOCRGate /\ UNCHANGED <<hvars, svars, jvars, ovars, rvars, tvars, fvars, uvars, pvars, xvars>>
    \/ WaitsAttempt /\ UNCHANGED <<hvars, svars, jvars, ovars, rvars, tvars, fvars, uvars, pvars, xvars>>
    \/ WaitsBackoff /\ UNCHANGED <<hvars, svars, jvars, ovars, rvars, tvars, fvars, uvars, pvars, xvars>>

HNext ==
    \/ DeadlineExpires /\ UNCHANGED <<svars, jvars, ovars, rvars, tvars, fvars, uvars, pvars, xvars, yvars>>
    \/ ProcessHybridCall /\ UNCHANGED <<svars, jvars, ovars, rvars, tvars, fvars, uvars, pvars, xvars, yvars>>
    \/ PageCountFails /\ UNCHANGED <<svars, jvars, ovars, rvars, tvars, fvars, uvars, pvars, xvars, yvars>>
    \/ PageCountOK /\ UNCHANGED <<svars, jvars, ovars, rvars, tvars, fvars, uvars, pvars, xvars, yvars>>
    \/ \E idx \in DOMAIN wpc : WorkerAcquire(idx) /\ UNCHANGED <<svars, jvars, ovars, rvars, tvars, fvars, uvars, pvars, xvars, yvars>>
    \/ \E idx \in DOMAIN wpc : WorkerAcquireCancelled(idx) /\ UNCHANGED <<svars, jvars, ovars, rvars, tvars, fvars, uvars, pvars, xvars, yvars>>
    \/ \E idx \in DOMAIN wpc : WorkerExtract(idx) /\ UNCHANGED <<svars, jvars, ovars, rvars, tvars, fvars, uvars, pvars, xvars, yvars>>
    \/ AnalyzeQuality /\ UNCHANGED <<svars, jvars, ovars, rvars, tvars, fvars, uvars, pvars, xvars, yvars>>
    \/ OCRFails /\ UNCHANGED <<svars, jvars, ovars, rvars, tvars, fvars, uvars, pvars, xvars, yvars>>
    \/ OCRSucceeds /\ UNCHANGED <<svars, jvars, ovars, rvars, tvars, fvars, uvars, pvars, xvars, yvars>>
    \/ CombineAndReturn /\ UNCHANGED <<svars, jvars, ovars, rvars, tvars, fvars, uvars, pvars, xvars, yvars>>
    \/ PdfExtract /\ UNCHANGED <<svars, jvars, ovars, rvars, tvars, fvars, uvars, pvars, xvars, yvars>>

\* the state after main() has set the server up
Init == HInit /\ SInit /\ JInit /\ OInit /\ RInit /\ TInit /\ FInit /\ UInit /\ PInit /\ XInit /\ YInit

SpecHybrid == Init /\ [][HNext]_vars

SpecServer == Init /\ [][SNext]_vars

SpecWorkspace == Init /\ [][JNext]_vars

SpecOCR == Init /\ [][ONext]_vars

SpecRegistry == Init /\ [][RNext]_vars

SpecRouter == Init /\ [][TNext]_vars

SpecSavings == Init /\ [][FNext]_vars

SpecURL == Init /\ [][UNext]_vars

SpecPreview == Init /\ [][PNext]_vars

SpecTextForPage == Init /\ [][XNext]_vars

SpecWaits == Init /\ [][YNext]_vars

(***************************************************************************)
(* HTTP server: properties                                                 *)
(***************************************************************************)
\* C4: the layers are checked in the order method, authentication, rate limit,
\* concurrency, so an answered request that violates several layers has the
\* status of the first violated one: a non-POST request is answered 405 (also
\* with a wrong secret), and a POST request with a wrong secret 401.
C4_MethodCheckedFirst ==
    \A r \in Requests :
        rpc[r] = "done" =>
            /\ rmethod[r] # "POST" => rstatus[r] = 405
            /\ (rmethod[r] = "POST" /\ ~rauth[r]) => rstatus[r] = 401

\* C5: the handler body runs only for a POST request with the right secret
\* that its client's limiter accepted and that holds a permit; a request
\* rejected by a layer has that layer's status (405, 401, 429 with
\* Retry-After: 60, 503) and never entered the handler.
C5_HandlerOnlyAfterAllLayers ==
    \A r \in Requests :
        /\ entered[r] => (rmethod[r] = "POST" /\ rauth[r] /\ rateOK[r])
        /\ rpc[r] = "handler" => (entered[r] /\ permit[r] /\ requestSem >= 1)
        /\ rstatus[r] \in {405, 401, 429, 503} => ~entered[r]
        /\ rstatus[r] = 401 => ~rauth[r]
        /\ rstatus[r] = 429 => (rauth[r] /\ ~rateOK[r])
        /\ rstatus[r] = 405 => (rauth[r] /\ rateOK[r] /\ rmethod[r] # "POST")
        /\ rstatus[r] = 503 => (rauth[r] /\ rateOK[r] /\ rmethod[r] = "POST")
        /\ (rstatus[r] = 429) <=> (retryAfter[r] = 60)
        /\ (rpc[r] = "done" /\ ~entered[r]) => rstatus[r] \in {405, 401, 429, 503}

\* C5 witness: one request runs its handler while another has been refused by
\* the rate limiter.
C5_Witness ==
    \E r, q \in Requests :
        /\ rpc[r] = "handler"
        /\ rstatus[q] = 429
        /\ retryAfter[q] = 60

\* C6: the handlers executing at the same time never exceed
\* maxConcurrentRequests.
C6_HandlersBounded ==
    Cardinality({r \in Requests : rpc[r] = "handler"}) <= MaxConcurrentRequests

\* C6 witness: every permit is taken and a further request waits for one.
C6_Witness ==
    /\ Cardinality({r \in Requests : rpc[r] = "handler"}) = MaxConcurrentRequests
    /\ \E r \in Requests : rpc[r] = "acquire"

\* C8: while the limiter map has not been cleaned up, the requests of one client
\* that passed the rate limit are at most burst + elapsed / every.
C8_RateBound ==
    ~cleanedUp =>
        \A c \in Clients : passCount[c] <= RateLimitBurst + now

(***************************************************************************)
(* Hybrid engine: properties                                               *)
(***************************************************************************)
\* the extraction ran with the options the PDF extractor passes
\* (ApplyDefaults of the zero options)
ViaPdfExtractor ==
    opts = ApplyDefaults([Pages |-> <<>>, MinWordsThreshold |-> 0,
                          OCRTriggerRatio |-> <<0, 1>>])

\* C1: every PageResult of an emitted Result has method text-layer or ocr;
\* needs-ocr never appears in emitted output.
C1_MethodTerminality ==
    (hpc = "emitted" /\ ViaPdfExtractor) =>
        \A i \in DOMAIN emitted.Pages :
            emitted.Pages[i].Method \in {"text-layer", "ocr"}

\* C2: when the deadline fires in Phase 1 or in the OCR phase and aborts a wait
\* or an external invocation, the extraction ends as a failure carrying the
\* deadline error, never as a successful Result.
C2_DeadlineYieldsFailure ==
    (hpc = "emitted" /\ ViaPdfExtractor /\ expiredIn \in {"phase1", "ocr"}
        /\ deadlineCut) =>
        (~emitted.Success /\ emitted.Error = "deadline")

\* C3: without an explicit page list the returned pages are in page-number
\* order, pages[i].pageNumber = i + 1 (sequences here start at 1), whatever
\* the order in which the Phase-1 goroutines ran and finished.
C3_PageOrder ==
    (hpc \in {"returned", "emitted"} /\ hErr = "none" /\ Len(opts.Pages) = 0) =>
        /\ Len(result.Pages) = totalPages
        /\ \A i \in 1..totalPages : result.Pages[i].PageNumber = i
        /\ hpc = "emitted" =>
              /\ Len(emitted.Pages) = totalPages
              /\ \A i \in 1..totalPages : emitted.Pages[i].PageNumber = i

\* C3 witness: a document of at least three pages, whose goroutines finished
\* out of index order, has been returned.
C3_Witness ==
    /\ hpc = "emitted"
    /\ hErr = "none"
    /\ Len(opts.Pages) = 0
    /\ totalPages >= 3
    /\ outOfOrder

\* ------------------------------------------------------------------------
\* Properties of the OCR invocations (SpecOCR)
\* ------------------------------------------------------------------------

\* C7: at no time are more than MaxOCRConcurrent OCR invocations (PDF and
\* image together) contacting the provider.
C7_OCRInFlightBounded ==
    Cardinality({k \in OCRCalls : opc[k] \in {"attempt", "backoff"}}) <= MaxOCRConcurrent

\* ------------------------------------------------------------------------
\* Properties of the download workspace (SpecWorkspace)
\* ------------------------------------------------------------------------

\* C9: once a request that created a workspace directory has terminated, in
\* whatever way, the directory and its file are gone.
C9_WorkspaceRemoved ==
    \A j \in Jobs :
        (jpc[j] = "done" /\ jdir[j]) => (j \notin fsDirs /\ j \notin fsFiles)

\* ------------------------------------------------------------------------
\* Properties of the registry (SpecRegistry)
\* ------------------------------------------------------------------------

\* the registered extractors that list the extension / the MIME type
ListsExtension(e, extension) ==
    ToLower(TrimSpace(extension)) \in {ToLower(TrimSpace(x)) : x \in SupportedExtensions(e)}

ListsMIME(e, mimeType) ==
    ToLower(TrimSpace(mimeType)) \in {ToLower(TrimSpace(x)) : x \in SupportedTypes(e)}

\* the extractor registered last among those that list the extension
LastRegisteredFor(extension) ==
    LET idx == {i \in 1..Len(extractors) : ListsExtension(extractors[i], extension)}
    IN  extractors[CHOOSE i \in idx : \A q \in idx : q <= i]

\* C10: when the extension matches one registration and the MIME type matches
\* another, Resolve answers with the extractor registered for the extension
\* (the latest one, should several list it), never with the MIME type's.
C10_ExtensionWins ==
    (/\ resolved.called
     /\ \E e1, e2 \in Range(extractors) :
           /\ e1 # e2
           /\ ListsExtension(e1, resolved.ext)
           /\ ListsMIME(e2, resolved.mime))
    => (/\ ~resolved.err
        /\ ListsExtension(resolved.name, resolved.ext)
        /\ resolved.name = LastRegisteredFor(resolved.ext))

\* Resolve("text/plain", ".go") answered "code/source" with the plain-text
\* extractor registered as well.
C10_Witness ==
    /\ resolved.called
    /\ ToLower(TrimSpace(resolved.mime)) = TextPlain
    /\ ToLower(TrimSpace(resolved.ext)) = <<".", "go">>
    /\ {"text", "code/source"} \subseteq Range(extractors)
    /\ resolved.name = "code/source"

\* the extractor registered last among those that list the MIME type key, ""
\* when none lists it
LastRegisteredForMIME(key) ==
    LET idx == {i \in 1..Len(extractors) :
                   key # <<>> /\ key \in {ToLower(TrimSpace(x)) : x \in SupportedTypes(extractors[i])}}
    IN  IF idx = {} THEN "" ELSE extractors[CHOOSE i \in idx : \A q \in idx : q <= i]

\* the MIME type up to its first ';', trimmed; the MIME type itself without ';'
StripParameters(mt) ==
    LET semis == {i \in 1..Len(mt) : mt[i] = ";"}
    IN  IF semis = {} THEN mt
        ELSE TrimSpace(SubSeq(mt, 1, (CHOOSE i \in semis : \A q \in semis : i <= q) - 1))

\* what the precedence of the MIME lookups gives for a lowercased MIME type
ExpectedByMIME(mt) ==
    IF LastRegisteredForMIME(mt) # "" THEN LastRegisteredForMIME(mt)
    ELSE IF LastRegisteredForMIME(StripParameters(mt)) # ""
         THEN LastRegisteredForMIME(StripParameters(mt))
    ELSE IF Len(mt) >= 2 /\ mt[1] = "text" /\ mt[2] = "/"
         THEN LastRegisteredForMIME(TextPlain)
    ELSE ""

\* the extension of the last Resolve call matches no registration
NoExtensionMatch ==
    \A e \in Range(extractors) : ~ListsExtension(e, resolved.ext)

\* C21: when the extension matches no registration, Resolve answers with the
\* extractor registered for the exact lowercased MIME type, else with the one
\* registered for the MIME type stripped of its ';' parameters, else, for a
\* text/ MIME type, with the one registered for text/plain, else with the
\* no-extractor error; and a Resolve call leaves the registry as it was.
C21_MIMEPrecedence ==
    /\ []((resolved.called /\ NoExtensionMatch) =>
             /\ resolved.name = ExpectedByMIME(ToLower(TrimSpace(resolved.mime)))
             /\ resolved.err <=> (resolved.name = ""))
    /\ [][resolved' # resolved =>
             UNCHANGED <<extractors, byMIME, byExtension>>]_vars

\* Resolve("text/xml;charset", ".zip") answered with the XML extractor through
\* the stripped MIME type, the plain-text extractor being registered as well.
C21_Witness ==
    /\ resolved.called
    /\ resolved.mime = <<"text", "/", "xml", ";", "charset">>
    /\ resolved.ext = <<".", "zip">>
    /\ {"text", "structured/xml"} \subseteq Range(extractors)
    /\ resolved.name = "structured/xml"

\* the OCR call of the extraction failed
OCRCallFailed == result.Error \in {"OCR failed: provider", "OCR failed: deadline"}

\* C11: when the OCR call failed, the result that reaches the caller of the PDF
\* extractor holds every page Phase 1 accepted as text-layer, unchanged, and
\* carries the OCR error message.
C11_OCRFailureCarried ==
    (hpc = "emitted" /\ OCRCallFailed) =>
        /\ emitted.Success
        /\ \A i \in DOMAIN results :
              results[i].Method = "text-layer" =>
                 /\ i \in DOMAIN emitted.Pages
                 /\ emitted.Pages[i] = results[i]
        /\ emitted.Error # "none"

\* ------------------------------------------------------------------------
\* Properties of Router.Extract (SpecRouter)
\* ------------------------------------------------------------------------

\* C12: every Result Router.Extract returns has no error when success is true
\* and an error when success is false; with an error from the extractor success
\* is false and a message the extractor set is kept.
C12_ResultInvariant ==
    tpc = "returned" =>
        /\ tres.Success <=> tres.Error = "none"
        /\ tres.Success <=> terr = "none"
        /\ (terr = "extractor error") => tres.Error = "extractor message"

\* Router.Extract returned what it made of an extractor's bare failure.
C12_Witness ==
    /\ tpc = "returned"
    /\ textractor # NoExtractor
    /\ terr = "context deadline exceeded"
    /\ ~tres.Success
    /\ tres.Error = "context deadline exceeded"

\* the download of the call came back with a DownloadedFile
DownloadSucceeded == tpc \in {"resolve", "limit", "extract"} \/ textractor # NoExtractor
                        \/ terr = "no extractor registered"

\* C17: a body of exactly maxBytes bytes is not refused as too large and is
\* downloaded whole, a body of maxBytes + 1 bytes or more never yields a file
\* and is refused as too large once the copy has ended, and at most
\* maxBytes + 1 bytes of a body are ever read or written.
C17_MaxBytesBoundary ==
    /\ tcopied <= MaxFileBytes + 1
    /\ DownloadSucceeded => (tbody <= MaxFileBytes /\ tdl.Size = tbody)
    /\ (tpc = "returned" /\ terr = "file exceeds limit") => tbody >= MaxFileBytes + 1
    /\ (tpc = "returned" /\ tbody >= MaxFileBytes + 1 /\ tcopied = MaxFileBytes + 1)
          => terr \in {"file exceeds limit", "write"}

\* a body of exactly maxBytes bytes was downloaded
C17_Witness ==
    /\ tpc = "resolve"
    /\ tbody = MaxFileBytes
    /\ tdl.Size = MaxFileBytes

\* C20: after a Router.Extract call that returned a successful Result, the
\* success hook has been called with the extraction's file type, the number of
\* bytes downloaded and a duration above zero.
C20_SuccessHookCalled ==
    (tpc = "returned" /\ tres.Success) =>
        /\ Len(hookCalls) >= 1
        /\ hookCalls[Len(hookCalls)].fileType = tres.FileType
        /\ hookCalls[Len(hookCalls)].fileSize = tdl.Size
        /\ hookCalls[Len(hookCalls)].duration > 0

\* ------------------------------------------------------------------------
\* Further properties of the hybrid engine (SpecHybrid)
\* ------------------------------------------------------------------------

\* the indexes of the plan whose page Phase 1 flagged
FlaggedIdx == {i \in DOMAIN results : results[i].Method = "needs-ocr"}

\* the OCR phase of the extraction is over
PastOCR == hpc \in {"combine", "returned", "emitted"} /\ Len(results) > 0

\* C13: with at least one page flagged, the pages sent to OCR are the whole
\* planned list if flagged / planned >= ocrTriggerRatio (equality included) and
\* exactly the flagged pages otherwise.
C13_TriggerRatio ==
    (PastOCR /\ FlaggedIdx # {}) =>
        IF Cardinality(FlaggedIdx) * opts.OCRTriggerRatio[2]
              >= opts.OCRTriggerRatio[1] * Len(pages)
        THEN ocrCalled = pages
        ELSE /\ Range(ocrCalled) = {pages[i] : i \in FlaggedIdx}
             /\ Len(ocrCalled) = Cardinality(FlaggedIdx)

\* exactly a quarter of four planned pages was flagged with ratio 0.25 and the
\* whole plan went to OCR
C13_Witness ==
    /\ PastOCR
    /\ opts.OCRTriggerRatio = <<1, 4>>
    /\ Len(pages) = 4
    /\ Cardinality(FlaggedIdx) = 1
    /\ ocrCalled = pages

\* C14: after a merge, a page is overwritten (OCR text, method ocr) only if the
\* response has an entry for its number and full-document OCR ran or the page
\* was flagged; in partial mode a text-layer page is unchanged even if the
\* response has an entry for it.
C14_MergeFrame ==
    (PastOCR /\ ocrResp # {}) =>
        \A i \in DOMAIN results :
            /\ result.Pages[i] # results[i] =>
                  /\ results[i].PageNumber \in ocrResp
                  /\ shouldDoFullOCR \/ results[i].Method = "needs-ocr"
                  /\ result.Pages[i].Method = "ocr"
                  /\ result.Pages[i].Text = OCRText(results[i].PageNumber)
            /\ (~shouldDoFullOCR /\ results[i].Method = "text-layer") =>
                  result.Pages[i] = results[i]

\* a partial OCR answered with an entry for a text-layer page, which was kept
C14_Witness ==
    /\ PastOCR
    /\ ~shouldDoFullOCR
    /\ \E i \in DOMAIN results :
          /\ results[i].Method = "text-layer"
          /\ results[i].PageNumber \in ocrResp
          /\ result.Pages[i] = results[i]

\* ------------------------------------------------------------------------
\* Properties of the Phase 4 totals (SpecSavings)
\* ------------------------------------------------------------------------

\* C18: in a successful result ocrPages + textLayerPages is the number of pages
\* of the result and costSavingsPercent is floor(100 * textLayerPages /
\* totalPages).
C18_SavingsArithmetic ==
    fpc = "done" =>
        /\ fTotals.OCRPages + fTotals.TextLayerPages = fPages
        /\ fTotals.CostSavingsPercent * fTotals.TotalPages <= 100 * fTotals.TextLayerPages
        /\ 100 * fTotals.TextLayerPages < (fTotals.CostSavingsPercent + 1) * fTotals.TotalPages

\* ------------------------------------------------------------------------
\* Further properties of the OCR invocations (SpecOCR)
\* ------------------------------------------------------------------------

\* C15: one call sends at most three requests to the provider, and it sends a
\* further request only after a failure that is no 4xx: never after a success
\* or a 4xx answer.
C15_AtMostThreeAttempts ==
    /\ [](\A k \in OCRCalls : oreqs[k] <= 3)
    /\ [][\A k \in OCRCalls :
             oreqs'[k] > oreqs[k] =>
                 \/ oreqs[k] = 0
                 \/ (ostatus[k] # 200 /\ ~(ostatus[k] >= 400 /\ ostatus[k] < 500)
                        /\ ostatus[k] # -1)]_vars

\* a call gave up after its third request failed with a 5xx
C15_Witness ==
    \E k \in OCRCalls :
        /\ opc[k] = "done"
        /\ oreqs[k] = 3
        /\ ostatus[k] = 500
        /\ oresult[k] = "failed"

\* ------------------------------------------------------------------------
\* Properties of validateDownloadURL (SpecURL)
\* ------------------------------------------------------------------------

\* the hosts the claim lists as private or local: localhost, a name ending with
\* .localhost, a literal loopback, link-local, private, carrier-grade-NAT or
\* multicast address
ListedPrivateOrLocal(h) ==
    \/ h.kind = "name" /\ h.name = <<"localhost">>
    \/ h.kind = "name" /\ Len(h.name) >= 2
          /\ h.name[Len(h.name)] = "localhost" /\ h.name[Len(h.name) - 1] = "."
    \/ h.kind = "ip" /\
          \/ h.ip[1] = 127
          \/ h.ip[1] = 169 /\ h.ip[2] = 254
          \/ h.ip[1] = 10
          \/ h.ip[1] = 172 /\ h.ip[2] \in 16..31
          \/ h.ip[1] = 192 /\ h.ip[2] = 168
          \/ h.ip[1] = 100 /\ h.ip[2] \in 64..127
          \/ h.ip[1] \in 224..239

\* C16 as stated: a URL is accepted exactly when (a) its scheme is https and
\* its host is not private or local, or (b) the flag is enabled, the scheme is
\* http or https and the host is one of the listed private or local hosts.
C16_AcceptedExactlyWhen ==
    (upc = "done" /\ uurl.parses) =>
        (uaccepted <=>
            \/ uurl.scheme = "https" /\ ~ListedPrivateOrLocal(uurl.host)
            \/ uallow /\ uurl.scheme \in {"http", "https"}
                  /\ ListedPrivateOrLocal(uurl.host))

\* the listed hosts and the unspecified address 0.0.0.0
PrivateOrLocalHost(h) ==
    ListedPrivateOrLocal(h) \/ (h.kind = "ip" /\ h.ip = <<0, 0, 0, 0>>)

\* C16 amended: a URL is accepted exactly when it parses, has a host, and (a)
\* its scheme is https and its host is not private or local, or (b) the flag is
\* enabled, the scheme is http or https and the host is private or local, the
\* unspecified address counting as private or local.
C16_AcceptedExactlyWhenAmended ==
    upc = "done" =>
        (uaccepted <=>
            /\ uurl.parses
            /\ uurl.host # NameHost(<<>>)
            /\ \/ uurl.scheme = "https" /\ ~PrivateOrLocalHost(uurl.host)
               \/ uallow /\ uurl.scheme \in {"http", "https"}
                     /\ PrivateOrLocalHost(uurl.host))

\* an http URL of a carrier-grade-NAT address was accepted with the flag enabled
C16_Witness ==
    /\ upc = "done"
    /\ uallow
    /\ uurl.scheme = "http"
    /\ uurl.host = IPHost(100, 64, 0, 1)
    /\ uaccepted

\* ------------------------------------------------------------------------
\* Properties of /preview (SpecPreview)
\* ------------------------------------------------------------------------

\* C19: handling a /preview request invokes no OCR, vision or transcription
\* provider: no provider call is made, the PDF extractor's Extract (the hybrid
\* pipeline with its OCR phase) never runs, and no extractor that may call a
\* provider runs at all.
C19_PreviewCallsNoProvider ==
    /\ providerCalls = {}
    /\ pran # "document/pdf"
    /\ pran # "" => ExtractProviderCalls(pran) = {{}}
    /\ (ppc = "done" /\ pextractor \in {"image", "media/audio", "media/video"})
           => (pstatus = 400 /\ pran = "")

\* a PDF whose previewed pages are all flagged needs-ocr was answered with
\* needsOcr set
C19_Witness ==
    /\ ppc = "done"
    /\ pextractor = "document/pdf"
    /\ pstatus = 200
    /\ pneedsOCR
    /\ Len(ppages) = 2
    /\ \A i \in 1..Len(ppages) : ppages[i] = "needs-ocr"

\* ------------------------------------------------------------------------
\* Properties of the rate-limiter mapping (SpecServer)
\* ------------------------------------------------------------------------

\* C22: before the first cleanup swap, the requests of one client identity
\* that are about to be judged hold one and the same limiter.
C22_OneLimiterPerClient ==
    ~cleanedUp =>
        \A r1, r2 \in Requests :
            (/\ rpc[r1] = "allow"
             /\ rpc[r2] = "allow"
             /\ rclient[r1] = rclient[r2])
            => rlim[r1] = rlim[r2]

\* C23 on the /preview path: a request whose artifact is larger than the
\* positive MaxFileSize of the resolved extractor fails, and the extractor's
\* Extract is not invoked.
C23_ExtractorLimitEnforced ==
    (/\ ppc = "done"
     /\ pextractor \in RegisteredExtractors
     /\ PreviewMaxFileSize(pextractor) > 0
     /\ psize > PreviewMaxFileSize(pextractor))
    => (pstatus = 400 /\ pran = "")

\* ------------------------------------------------------------------------
\* Properties of Phase 1 (SpecHybrid)
\* ------------------------------------------------------------------------

\* the goroutines of Phase 1 that are inside extractSinglePage / TextForPage
RunningWorkers == {i \in DOMAIN wpc : wpc[i] = "running"}

\* C24: during Phase 1 the number of text-layer tool invocations in progress
\* is at most min(numCPU, maxPageWorkers, |planned pages|).
C24_Phase1Parallelism ==
    hpc = "phase1" =>
        /\ Cardinality(RunningWorkers) <= NumCPU
        /\ Cardinality(RunningWorkers) <= MaxPageWorkers
        /\ Cardinality(RunningWorkers) <= Len(pages)

\* the pool is full while a further page waits for a permit
C24_Witness ==
    /\ hpc = "phase1"
    /\ Len(pages) > NumCPU
    /\ Cardinality(RunningWorkers) = NumCPU
    /\ \E i \in DOMAIN wpc : wpc[i] = "spawned"

\* ------------------------------------------------------------------------
\* Properties of TextForPage (SpecTextForPage)
\* ------------------------------------------------------------------------

\* C25: once the output read for a page has reached the cap, a tool process
\* that has more output to write does not go on running until the sub-deadline
\* fires, and TextForPage returns the output-exceeds-limit error.
C25_CapKillsAndReports ==
    /\ (xpc = "waiting" /\ xout = maxPerPageBytes /\ xleft > 0 /\ ~xdeadline)
           => xproc # "running"
    /\ (xpc = "returned" /\ xout = maxPerPageBytes) => xerr = "extracted text too large"

\* ------------------------------------------------------------------------
\* Properties of handleUniversalExtract (SpecRouter)
\* ------------------------------------------------------------------------

\* C26: /extract answers a failure caused by the expiry of the extraction
\* deadline with 504 and a failure caused by an artifact above the size cap
\* with 413.
C26_StatusByErrorKind ==
    tpc = "written" =>
        /\ terr = "context deadline exceeded" => tstatus = 504
        /\ terr \in {"file exceeds limit", "file exceeds extractor limit"} => tstatus = 413

\* ------------------------------------------------------------------------
\* Properties of the blocking waits (SpecWaits)
\* ------------------------------------------------------------------------

\* the request's extraction deadline: universalExtractTimeout after the
\* request arrived while the handler's context does not exist yet, the expiry
\* of that context afterwards
RequestDeadline == IF yctxDeadline > 0 THEN yctxDeadline ELSE UniversalExtractTimeout

\* C27: once its extraction deadline has fired, a request spends no more time
\* waiting for the request semaphore, for the OCR semaphore or between two OCR
\* attempts.
C27_WaitsEndAtDeadline ==
    [][(/\ ypc \in {"acquire", "ocrgate", "backoff"}
        /\ yclock >= RequestDeadline
        /\ ypc' = ypc)
       => yclock' = yclock]_vars

\* ------------------------------------------------------------------------
\* Properties of the concurrency permits and the metrics (SpecServer)
\* ------------------------------------------------------------------------

\* the requests whose /extract or /preview handler is executing
ExecutingHandlers == {r \in Requests : rpc[r] = "handler"}

C29_AuthRejectionFrame ==
    /\ [](\A r \in Requests :
             rstatus[r] = 401 =>
                (rpc[r] = "done" /\ ~rateOK[r] /\ ~entered[r] /\ ~permit[r]))
    /\ [][\A r \in Requests :
             (rpc[r] = "idle" /\ rstatus'[r] = 401)
             => UNCHANGED <<limiters, limTokens, passCount, requestSem,
                            activeReqs, totalRequests>>]_vars

\* a request was rejected by authentication while a client's limiter had
\* already been used and a handler was executing
C29_Witness ==
    /\ \E r \in Requests : rstatus[r] = 401 /\ rpc[r] = "done"
    /\ \E c \in Clients : limiters[c] # 0 /\ passCount[c] >= 1
    /\ activeReqs >= 1

\* Phase 1 flagged no page
NoPageFlagged == \A i \in DOMAIN results : results[i].Method = "text-layer"

\* C30: when Phase 1 flags no page, the OCR client is not called, whatever the
\* trigger ratio, and ProcessHybrid returns every planned page with method
\* text-layer, ocrPages = 0 and no error.
C30_NoFlagNoOCR ==
    (PastOCR /\ NoPageFlagged) =>
        /\ ocrCalled = <<>>
        /\ ocrResp = {}
        /\ result.Error = "none"
        /\ Len(result.Pages) = Len(pages)
        /\ \A i \in DOMAIN result.Pages :
              /\ result.Pages[i].PageNumber = pages[i]
              /\ result.Pages[i].Method = "text-layer"
        /\ hpc \in {"returned", "emitted"} =>
              /\ hErr = "none"
              /\ result.Success
              /\ result.OCRPages = 0
              /\ result.TextLayerPages = Len(pages)

\* a document of several pages, none flagged, was returned under the ratio 0.5
C30_Witness ==
    /\ hpc = "returned"
    /\ Len(pages) >= 2
    /\ NoPageFlagged
    /\ opts.OCRTriggerRatio = <<1, 2>>
    /\ result.Success
    /\ result.OCRPages = 0

====
